---- MODULE Spec2Model ----
(***************************************************************************)
(* Model of the release-notes-generator action of embrace-io/public-actions *)
(* (tag-utils.js, commit-parser.js, changelog-generator.js, index.js).      *)
(*                                                                          *)
(* JavaScript strings are sequences of one-character strings, so that       *)
(* includes/startsWith/split/trim are computed character by character.      *)
(* A value that may be null is a sequence of length at most one.            *)
(* A local const of the source that is read more than once is the parameter *)
(* of a helper operator, so that it is evaluated once.                      *)
(***************************************************************************)
EXTENDS Integers, Sequences, FiniteSets, TLC

VARIABLES
    config,      \* ActionConfig handed to run / arguments of a direct call
    git,         \* the repository as the git executable reports it
    file,        \* the changelog file: [exists, content]
    pc,          \* position of the running invocation
    ncalls,      \* number of direct calls made so far
    ret,         \* the last direct call: arguments and what it returned or threw
    core,        \* the core object of run: [log, outputs, failed]
    github,      \* the releases of the repository and the API calls made
    local,       \* the local variables of run
    fswrites,    \* number of fs.writeFileSync calls made by run
    backend      \* the requests curl has sent to the versioning backend

vars == <<config, git, file, pc, ncalls, ret, core, github, local, fswrites, backend>>

(***************************************************************************)
(* Bounds of the model                                                      *)
(***************************************************************************)
MaxTags == 3

MaxCalls == 3

MaxCommits == 2

(***************************************************************************)
(* Strings                                                                  *)
(***************************************************************************)
NL == "\n"

None == <<>>

Some(v) == <<v>>

WhiteSpace == {" ", NL, "\t", "\r"}

Digits == <<"0", "1", "2", "3", "4", "5", "6", "7", "8", "9">>

IsDigit(c) == \E i \in 1..Len(Digits) : Digits[i] = c

DigitVal(c) == (CHOOSE i \in 1..Len(Digits) : Digits[i] = c) - 1

Drop(s, n) == SubSeq(s, n + 1, Len(s))

Take(s, n) == SubSeq(s, 1, IF n < Len(s) THEN n ELSE Len(s))

StartsWith(s, p) == Len(p) <= Len(s) /\ SubSeq(s, 1, Len(p)) = p

Includes(s, p) == \E i \in 0..(Len(s) - Len(p)) : SubSeq(s, i + 1, i + Len(p)) = p

RECURSIVE TrimStart(_)
TrimStart(s) == IF s # <<>> /\ Head(s) \in WhiteSpace THEN TrimStart(Tail(s)) ELSE s

RECURSIVE TrimEnd(_)
TrimEnd(s) ==
    IF s # <<>> /\ s[Len(s)] \in WhiteSpace THEN TrimEnd(SubSeq(s, 1, Len(s) - 1)) ELSE s

Trim(s) == TrimEnd(TrimStart(s))

\* The k-th smallest of a set of positions.
NthPosition(positions, k) ==
    CHOOSE i \in positions : Cardinality({j \in positions : j < i}) = k - 1

\* The pieces of s between the separator positions: always at least one
\* piece, an empty piece between adjacent separators.
SplitAt(s, positions) ==
    [k \in 1..(Cardinality(positions) + 1) |->
        SubSeq(s,
               IF k = 1 THEN 1 ELSE NthPosition(positions, k - 1) + 1,
               IF k > Cardinality(positions) THEN Len(s)
               ELSE NthPosition(positions, k) - 1)]

\* String.prototype.split on a set of one-character separators.
Split(s, seps) == SplitAt(s, {i \in 1..Len(s) : s[i] \in seps})

RECURSIVE Join(_, _)
Join(parts, sep) ==
    IF parts = <<>> THEN <<>>
    ELSE IF Len(parts) = 1 THEN parts[1]
    ELSE parts[1] \o sep \o Join(Tail(parts), sep)

\* Array.prototype.slice(from) and slice(0, to) on 0-based indices.
SliceFrom(a, from) == SubSeq(a, from + 1, Len(a))

SliceTo(a, to) == SubSeq(a, 1, IF to < Len(a) THEN to ELSE Len(a))

\* Array.prototype.indexOf: 0-based index of the first occurrence, or -1.
IndexOf(a, x) ==
    IF \E i \in 1..Len(a) : a[i] = x
    THEN (CHOOSE i \in 1..Len(a) : a[i] = x /\ \A j \in 1..(i - 1) : a[j] # x) - 1
    ELSE -1

\* Number -> decimal string, as template literals do for non-negative integers.
RECURSIVE NumToStr(_)
NumToStr(n) ==
    IF n < Len(Digits) THEN <<Digits[n + 1]>>
    ELSE NumToStr(n \div Len(Digits)) \o <<Digits[(n % Len(Digits)) + 1]>>

\* parseInt(x) || 0 for x a string or undefined (None): leading white space,
\* an optional sign, then the longest prefix of decimal digits; NaN gives 0.
RECURSIVE DigitsPrefixVal(_, _)
DigitsPrefixVal(s, acc) ==
    IF s # <<>> /\ IsDigit(Head(s))
    THEN DigitsPrefixVal(Tail(s), acc * Len(Digits) + DigitVal(Head(s)))
    ELSE acc

ParseSigned(t) ==
    IF t # <<>> /\ Head(t) = "-" THEN 0 - DigitsPrefixVal(Tail(t), 0)
    ELSE IF t # <<>> /\ Head(t) = "+" THEN DigitsPrefixVal(Tail(t), 0)
    ELSE DigitsPrefixVal(t, 0)

ParseIntOr0(x) == IF x = None THEN 0 ELSE ParseSigned(TrimStart(x[1]))

\* Collation order of the characters the model uses (ICU root collation:
\* punctuation, then digits, then letters; letter case is a tertiary
\* difference, lower case first).
Collation ==
    <<" ", "_", "-", ",", ":", ".", "(", ")", "[", "]", "*", "#", "|", "{", "}",
      "0", "1", "2", "3", "4", "5", "6", "7", "8", "9",
      "a", "b", "c", "d", "e", "f", "g", "h", "i", "j", "k", "l", "m",
      "n", "o", "p", "q", "r", "s", "t", "u", "v", "w", "x", "y", "z">>

Upper ==
    <<"A", "B", "C", "D", "E", "F", "G", "H", "I", "J", "K", "L", "M",
      "N", "O", "P", "Q", "R", "S", "T", "U", "V", "W", "X", "Y", "Z">>

Lower ==
    <<"a", "b", "c", "d", "e", "f", "g", "h", "i", "j", "k", "l", "m",
      "n", "o", "p", "q", "r", "s", "t", "u", "v", "w", "x", "y", "z">>

IsUpper(c) == \E i \in 1..Len(Upper) : Upper[i] = c

IsLower(c) == \E i \in 1..Len(Lower) : Lower[i] = c

ToLowerChar(c) == IF IsUpper(c) THEN Lower[CHOOSE i \in 1..Len(Upper) : Upper[i] = c] ELSE c

ToUpperChar(c) == IF IsLower(c) THEN Upper[CHOOSE i \in 1..Len(Lower) : Lower[i] = c] ELSE c

ToLowerCase(s) == [i \in 1..Len(s) |-> ToLowerChar(s[i])]

ToUpperCase(s) == [i \in 1..Len(s) |-> ToUpperChar(s[i])]

CollRank(c) == CHOOSE i \in 1..Len(Collation) : Collation[i] = ToLowerChar(c)

CaseRank(c) == IF IsUpper(c) THEN 1 ELSE 0

\* Lexicographic comparison of two sequences of numbers: -1, 0 or 1.
RECURSIVE LexCompare(_, _)
LexCompare(a, b) ==
    IF a = <<>> /\ b = <<>> THEN 0
    ELSE IF a = <<>> THEN -1
    ELSE IF b = <<>> THEN 1
    ELSE IF Head(a) < Head(b) THEN -1
    ELSE IF Head(a) > Head(b) THEN 1
    ELSE LexCompare(Tail(a), Tail(b))

CaseCompare(primary, a, b) ==
    IF primary # 0 THEN primary
    ELSE LexCompare([i \in 1..Len(a) |-> CaseRank(a[i])],
                    [i \in 1..Len(b) |-> CaseRank(b[i])])

\* String.prototype.localeCompare: -1, 0 or 1.
LocaleCompare(a, b) ==
    CaseCompare(LexCompare([i \in 1..Len(a) |-> CollRank(a[i])],
                           [i \in 1..Len(b) |-> CollRank(b[i])]), a, b)

\* One piece of a message built by a template literal: literal text or an
\* interpolated value.
Lit(text) == [lit |-> text, val |-> <<>>]

Val(v) == [lit |-> "", val |-> v]

(***************************************************************************)
(* tag-utils.js                                                             *)
(***************************************************************************)
Returned(v) == [thrown |-> FALSE, value |-> v, message |-> <<>>]

Thrown(msg) == [thrown |-> TRUE, value |-> <<>>, message |-> msg]

VersionOfParts(parts) ==
    LET part(i) == IF i < Len(parts) THEN Some(parts[i + 1]) ELSE None
    IN  [major |-> ParseIntOr0(part(0)),
         minor |-> ParseIntOr0(part(1)),
         patch |-> ParseIntOr0(part(2)),
         prerelease |-> Join(SliceFrom(parts, 3), <<".">>)]

parseVersion(v) ==
    VersionOfParts(Split(IF StartsWith(v, <<"v">>) THEN Tail(v) ELSE v, {".", "-"}))

CompareVersions(vA, vB) ==
    IF vA.major # vB.major THEN vA.major - vB.major
    ELSE IF vA.minor # vB.minor THEN vA.minor - vB.minor
    ELSE IF vA.patch # vB.patch THEN vA.patch - vB.patch
    ELSE IF vA.prerelease = <<>> /\ vB.prerelease = <<>> THEN 0
    ELSE IF vA.prerelease = <<>> THEN 1
    ELSE IF vB.prerelease = <<>> THEN -1
    ELSE LocaleCompare(vA.prerelease, vB.prerelease)

compareSemver(a, b) == CompareVersions(parseVersion(a), parseVersion(b))

TagOrderAscending(a, b) == compareSemver(a, b)

\* The comparator getAllTags hands to Array.prototype.sort.
TagOrder(a, b) == compareSemver(b, a)

\* tags.sort(TagOrder): Array.prototype.sort is a stable sort (ECMAScript
\* 2019), computed here as a stable insertion sort.
RECURSIVE InsertTag(_, _)
InsertTag(sorted, x) ==
    IF sorted = <<>> THEN <<x>>
    ELSE IF TagOrder(Head(sorted), x) <= 0
         THEN <<Head(sorted)>> \o InsertTag(Tail(sorted), x)
         ELSE <<x>> \o sorted

RECURSIVE SortTags(_)
SortTags(a) ==
    IF a = <<>> THEN <<>>
    ELSE InsertTag(SortTags(SubSeq(a, 1, Len(a) - 1)), a[Len(a)])

\* What git tag prints: one tag per line.
GitTagOutput(g) == Join([i \in 1..Len(g.tags) |-> g.tags[i] \o <<NL>>], <<>>)

GitError == <<Lit("git command failed")>>

TagsOfOutput(output) ==
    IF output = <<>> THEN Returned(<<>>)
    ELSE Returned(SortTags(Split(output, {NL})))

getAllTags(g) ==
    IF "tag" \in g.failing
    THEN Thrown(<<Lit("Failed to get git tags: ")>> \o GitError)
    ELSE TagsOfOutput(Trim(GitTagOutput(g)))

FirstOf(tags) ==
    IF tags.thrown THEN tags
    ELSE IF Len(tags.value) = 0 THEN Thrown(<<Lit("No tags found in repository")>>)
    ELSE Returned(tags.value[1])

Rewrap(prefix, r) == IF r.thrown THEN Thrown(<<Lit(prefix)>> \o r.message) ELSE r

getLatestTag(g) == Rewrap("Failed to get latest tag: ", FirstOf(getAllTags(g)))

TagAfterSameIndex(allTags, currentTag, currentIndex) ==
    IF currentIndex = -1
    THEN Thrown(<<Lit("Tag "), Val(currentTag), Lit(" not found in repository")>>)
    ELSE IF currentIndex = Len(allTags) - 1 THEN Returned(None)
    ELSE Returned(Some(allTags[currentIndex + 1]))

\* Lines 88-90 left out: an absent tag is taken for the oldest one.
TagAfterAbsentIsOldest(allTags, currentTag, currentIndex) ==
    IF currentIndex = -1 \/ currentIndex = Len(allTags) - 1 THEN Returned(None)
    ELSE Returned(Some(allTags[currentIndex + 2]))

\* allTags[currentIndex + 1] of the source, on a 1-based sequence.
TagAfter(allTags, currentTag, currentIndex) ==
    IF currentIndex = -1
    THEN Thrown(<<Lit("Tag "), Val(currentTag), Lit(" not found in repository")>>)
    ELSE IF currentIndex = Len(allTags) - 1 THEN Returned(None)
    ELSE Returned(Some(allTags[currentIndex + 2]))

PreviousOf(allTags, currentTag) ==
    IF allTags.thrown THEN allTags
    ELSE TagAfter(allTags.value, currentTag, IndexOf(allTags.value, currentTag))

\* Returns Some(tag), or None for null.
getPreviousTag(g, currentTag) == PreviousOf(getAllTags(g), currentTag)

getInitialCommit(g) ==
    IF "revlist" \in g.failing
    THEN Thrown(<<Lit("Failed to get initial commit: ")>> \o GitError)
    ELSE Returned(Trim(g.initialCommit \o <<NL>>))

Latest == <<"l", "a", "t", "e", "s", "t">>

\* !x for x a string or null.
Falsy(x) == x = None \/ x = Some(<<>>)

\* A result together with what was logged through core.info on the way.
WithInfo(r, info) == [thrown |-> r.thrown, value |-> r.value, message |-> r.message,
                      info |-> info]

\* resolveTags, lines 138-139: no previous tag.
BaseFromInitial(currentTag, initial, info) ==
    IF initial.thrown THEN WithInfo(initial, info)
    ELSE WithInfo(Returned([currentTag |-> currentTag, baseTag |-> initial.value]),
                  Append(info, <<Lit("This is the first tag, comparing from initial commit: "),
                                 Val(Take(initial.value, 7))>>))

\* resolveTags, lines 133-140.
BaseFromPrevious(g, currentTag, previousTag, info) ==
    IF previousTag.thrown THEN WithInfo(previousTag, info)
    ELSE IF ~Falsy(previousTag.value)
    THEN WithInfo(Returned([currentTag |-> currentTag, baseTag |-> previousTag.value[1]]),
                  Append(info, <<Lit("Automatically detected previous tag: "),
                                 Val(previousTag.value[1])>>))
    ELSE BaseFromInitial(currentTag, getInitialCommit(g), info)

\* A resolution that looks the current tag up in the tag list before it
\* takes the base it is given.
ResolveBaseChecking(g, currentTag, baseTagInput, info) ==
    IF getPreviousTag(g, currentTag).thrown THEN WithInfo(getPreviousTag(g, currentTag), info)
    ELSE IF ~Falsy(baseTagInput)
    THEN WithInfo(Returned([currentTag |-> currentTag, baseTag |-> baseTagInput[1]]),
                  Append(info, <<Lit("Using provided base tag: "), Val(baseTagInput[1])>>))
    ELSE BaseFromPrevious(g, currentTag, getPreviousTag(g, currentTag), info)

\* resolveTags, lines 130-145.
ResolveBase(g, currentTag, baseTagInput, info) ==
    IF ~Falsy(baseTagInput)
    THEN WithInfo(Returned([currentTag |-> currentTag, baseTag |-> baseTagInput[1]]),
                  Append(info, <<Lit("Using provided base tag: "), Val(baseTagInput[1])>>))
    ELSE BaseFromPrevious(g, currentTag, getPreviousTag(g, currentTag), info)

\* resolveTags, lines 124-125.
ResolveFromLatest(g, latest, baseTagInput) ==
    IF latest.thrown THEN WithInfo(latest, <<>>)
    ELSE ResolveBase(g, latest.value, baseTagInput,
                     <<<<Lit("Using latest tag: "), Val(latest.value)>>>>)

\* resolveTags: value is [currentTag, baseTag]; info is what it logged
\* through core.info before returning or throwing.
resolveTags(g, currentTagInput, baseTagInput) ==
    IF Falsy(currentTagInput) \/ currentTagInput = Some(Latest)
    THEN ResolveFromLatest(g, getLatestTag(g), baseTagInput)
    ELSE ResolveBase(g, currentTagInput[1], baseTagInput,
                     <<<<Lit("Using provided current tag: "), Val(currentTagInput[1])>>>>)

(***************************************************************************)
(* commit-parser.js                                                         *)
(***************************************************************************)
\* An object literal is the sequence of its own properties in insertion
\* order; a later pair with the same key overrides an earlier one.
DEFAULT_TYPES ==
    <<[key |-> <<"f", "e", "a", "t", "u", "r", "e">>,
       value |-> <<"F", "e", "a", "t", "u", "r", "e", "s">>],
      [key |-> <<"f", "e", "a", "t">>,
       value |-> <<"F", "e", "a", "t", "u", "r", "e", "s">>],
      [key |-> <<"f", "i", "x">>,
       value |-> <<"B", "u", "g", " ", "F", "i", "x", "e", "s">>],
      [key |-> <<"h", "o", "t", "f", "i", "x">>,
       value |-> <<"B", "u", "g", " ", "F", "i", "x", "e", "s">>],
      [key |-> <<"q", "u", "i", "c", "k", "f", "i", "x">>,
       value |-> <<"B", "u", "g", " ", "F", "i", "x", "e", "s">>],
      [key |-> <<"p", "a", "t", "c", "h">>,
       value |-> <<"B", "u", "g", " ", "F", "i", "x", "e", "s">>],
      [key |-> <<"c", "h", "o", "r", "e">>,
       value |-> <<"C", "h", "o", "r", "e", "s">>],
      [key |-> <<"m", "a", "i", "n", "t", "e", "n", "a", "n", "c", "e">>,
       value |-> <<"C", "h", "o", "r", "e", "s">>],
      [key |-> <<"m", "a", "i", "n", "t">>,
       value |-> <<"C", "h", "o", "r", "e", "s">>],
      [key |-> <<"d", "o", "c", "s">>,
       value |-> <<"D", "o", "c", "u", "m", "e", "n", "t", "a", "t", "i", "o", "n">>],
      [key |-> <<"d", "o", "c">>,
       value |-> <<"D", "o", "c", "u", "m", "e", "n", "t", "a", "t", "i", "o", "n">>]>>

\* The property names every plain object inherits from Object.prototype.
ObjectPrototypeKeys ==
    { <<"c", "o", "n", "s", "t", "r", "u", "c", "t", "o", "r">>,
      <<"_", "_", "d", "e", "f", "i", "n", "e", "G", "e", "t", "t", "e", "r", "_", "_">>,
      <<"_", "_", "d", "e", "f", "i", "n", "e", "S", "e", "t", "t", "e", "r", "_", "_">>,
      <<"h", "a", "s", "O", "w", "n", "P", "r", "o", "p", "e", "r", "t", "y">>,
      <<"_", "_", "l", "o", "o", "k", "u", "p", "G", "e", "t", "t", "e", "r", "_", "_">>,
      <<"_", "_", "l", "o", "o", "k", "u", "p", "S", "e", "t", "t", "e", "r", "_", "_">>,
      <<"i", "s", "P", "r", "o", "t", "o", "t", "y", "p", "e", "O", "f">>,
      <<"p", "r", "o", "p", "e", "r", "t", "y", "I", "s", "E", "n", "u", "m", "e", "r", "a", "b", "l", "e">>,
      <<"t", "o", "S", "t", "r", "i", "n", "g">>,
      <<"v", "a", "l", "u", "e", "O", "f">>,
      <<"_", "_", "p", "r", "o", "t", "o", "_", "_">>,
      <<"t", "o", "L", "o", "c", "a", "l", "e", "S", "t", "r", "i", "n", "g">> }

ProtoKey == <<"_", "_", "p", "r", "o", "t", "o", "_", "_">>

ConstructorKey == <<"c", "o", "n", "s", "t", "r", "u", "c", "t", "o", "r">>

\* String(x) of an inherited property value: a native function, or
\* Object.prototype itself for __proto__.
InheritedText(key) ==
    IF key = ProtoKey THEN <<"[", "o", "b", "j", "e", "c", "t", " ", "O", "b", "j", "e", "c", "t", "]">>
    ELSE <<"f", "u", "n", "c", "t", "i", "o", "n", " ">>
         \o (IF key = ConstructorKey THEN <<"O", "b", "j", "e", "c", "t">> ELSE key)
         \o <<"(", ")", " ", "{", " ", "[", "n", "a", "t", "i", "v", "e", " ", "c", "o", "d", "e", "]", " ", "}">>

HasOwn(obj, key) == \E i \in 1..Len(obj) : obj[i].key = key

OwnValue(obj, key) ==
    obj[CHOOSE i \in 1..Len(obj) :
            obj[i].key = key /\ \A j \in (i + 1)..Len(obj) : obj[j].key # key].value

\* The log git prints for --pretty=format:"%H|%s": one line per commit,
\* a newline between lines.
GitLogOutput(commits) ==
    Join([i \in 1..Len(commits) |-> commits[i].hash \o <<"|">> \o commits[i].subject],
         <<NL>>)

\* const [hash, message] = line.split('|'): the first two pieces; a missing
\* piece is undefined (None).
CommitOfPieces(pieces) ==
    [hash |-> Some(pieces[1]),
     message |-> IF Len(pieces) >= 2 THEN Some(pieces[2]) ELSE None]

CommitsOfLines(lines) ==
    [i \in 1..Len(lines) |-> CommitOfPieces(Split(lines[i], {"|"}))]

CommitsOfLog(gitLog) ==
    IF gitLog = <<>> THEN Returned(<<>>)
    ELSE Returned(CommitsOfLines(Split(gitLog, {NL})))

\* git log fails when the command fails or a reference of the range does
\* not name a commit of the repository.
KnownRef(g, ref) ==
    ref = g.initialCommit \/ \E i \in 1..Len(g.tags) : g.tags[i] = ref

getCommitsBetween(g, baseRef, currentRef) ==
    IF "log" \in g.failing \/ ~KnownRef(g, baseRef) \/ ~KnownRef(g, currentRef)
    THEN Thrown(<<Lit("Failed to get commits: ")>> \o GitError)
    ELSE CommitsOfLog(Trim(GitLogOutput(g.commits)))

TicketPrefix == <<"E", "M", "B", "R", "-">>

LineTerminators == {NL, "\r"}

RECURSIVE DigitRun(_)
DigitRun(s) == IF s # <<>> /\ IsDigit(Head(s)) THEN 1 + DigitRun(Tail(s)) ELSE 0

RECURSIVE SpaceRun(_)
SpaceRun(s) == IF s # <<>> /\ Head(s) \in WhiteSpace THEN 1 + SpaceRun(Tail(s)) ELSE 0

\* 1-based position of the first colon, 0 when there is none.
FirstColon(s) ==
    IF \E i \in 1..Len(s) : s[i] = ":"
    THEN CHOOSE i \in 1..Len(s) : s[i] = ":" /\ \A j \in 1..(i - 1) : s[j] # ":"
    ELSE 0

\* A match that keeps the text after the colon as it stands.
MatchDescriptionUntrimmed(ticket, type, after, spaces) ==
    IF after = <<>> THEN None
    ELSE IF \E i \in (IF spaces < Len(after) THEN spaces + 1 ELSE Len(after))..Len(after) :
               after[i] \in LineTerminators
    THEN None
    ELSE Some([ticket |-> ToUpperCase(ticket), type |-> Trim(type),
               description |-> after])

\* \s*(.+)$ on the text after the colon: some white-space prefix followed
\* by a non-empty rest without line terminators; `spaces` is the longest
\* white-space prefix.
MatchDescription(ticket, type, after, spaces) ==
    IF after = <<>> THEN None
    ELSE IF \E i \in (IF spaces < Len(after) THEN spaces + 1 ELSE Len(after))..Len(after) :
               after[i] \in LineTerminators
    THEN None
    ELSE Some([ticket |-> ToUpperCase(ticket), type |-> Trim(type),
               description |-> Trim(after)])

\* \s+([^:]+): on the text after the closing bracket; `colon` is the
\* position of its first colon.
MatchType(ticket, rest, colon) ==
    IF colon < 3 \/ rest[1] \notin WhiteSpace THEN None
    ELSE MatchDescription(ticket, SubSeq(rest, 1, colon - 1), Drop(rest, colon),
                          SpaceRun(Drop(rest, colon)))

\* (EMBR-\d+)\] with `digits` the length of the digit run after the prefix.
MatchTicket(message, digits) ==
    IF digits = 0 \/ Len(message) < Len(TicketPrefix) + digits + 2
       \/ message[Len(TicketPrefix) + digits + 2] # "]"
    THEN None
    ELSE MatchType(SubSeq(message, 2, Len(TicketPrefix) + digits + 1),
                   Drop(message, Len(TicketPrefix) + digits + 2),
                   FirstColon(Drop(message, Len(TicketPrefix) + digits + 2)))

\* message.match(/^\[(EMBR-\d+)\]\s+([^:]+):\s*(.+)$/i): None for null.
parseCommitMessage(message) ==
    IF Len(message) < Len(TicketPrefix) + 1 \/ Head(message) # "["
       \/ ToUpperCase(SubSeq(message, 2, Len(TicketPrefix) + 1)) # TicketPrefix
    THEN None
    ELSE MatchTicket(message, DigitRun(Drop(message, Len(TicketPrefix) + 1)))

MergePrefix == <<"M", "e", "r", "g", "e", " ">>

\* typeMap[typeKey] || parsed.type, used as a property name.
GroupNameOf(typeMap, typeKey, type) ==
    IF HasOwn(typeMap, typeKey)
    THEN (IF OwnValue(typeMap, typeKey) # <<>> THEN OwnValue(typeMap, typeKey) ELSE type)
    ELSE IF typeKey \in ObjectPrototypeKeys THEN InheritedText(typeKey)
    ELSE type

GroupIndex(groups, name) == CHOOSE i \in 1..Len(groups) : groups[i].name = name

HasGroup(groups, name) == \E i \in 1..Len(groups) : groups[i].name = name

PushTypeError == <<Lit("groups[groupName].push is not a function")>>

ItemOf(parsed, hash) ==
    [ticket |-> parsed.ticket, description |-> parsed.description, hash |-> Take(hash, 7)]

\* Pushing that puts the entry in front of the entries of its group.
PushItemInFront(acc, groupName, item) ==
    IF HasGroup(acc.value.groups, groupName)
    THEN Returned([groups |-> [acc.value.groups EXCEPT
                                  ![GroupIndex(acc.value.groups, groupName)].items =
                                      <<item>> \o @],
                   unmatched |-> acc.value.unmatched])
    ELSE IF groupName \in ObjectPrototypeKeys THEN Thrown(PushTypeError)
    ELSE Returned([groups |-> Append(acc.value.groups,
                                     [name |-> groupName, items |-> <<item>>]),
                   unmatched |-> acc.value.unmatched])

\* Lines 110-118: groups[groupName] is read through the prototype chain, so
\* a name inherited from Object.prototype is found (and is no array).
PushItem(acc, groupName, item) ==
    IF HasGroup(acc.value.groups, groupName)
    THEN Returned([groups |-> [acc.value.groups EXCEPT
                                  ![GroupIndex(acc.value.groups, groupName)].items =
                                      Append(@, item)],
                   unmatched |-> acc.value.unmatched])
    ELSE IF groupName \in ObjectPrototypeKeys THEN Thrown(PushTypeError)
    ELSE Returned([groups |-> Append(acc.value.groups,
                                     [name |-> groupName, items |-> <<item>>]),
                   unmatched |-> acc.value.unmatched])

PushUnmatched(acc, commit) ==
    Returned([groups |-> acc.value.groups,
              unmatched |-> Append(acc.value.unmatched,
                                   [message |-> commit.message[1],
                                    hash |-> Take(commit.hash[1], 7)])])

UndefinedTypeError ==
    <<Lit("Cannot read properties of undefined (reading 'startsWith')")>>

\* The body of the for loop, lines 99-124.
GroupOne(acc, typeMap, commit, parsed) ==
    IF parsed # None
    THEN PushItem(acc, GroupNameOf(typeMap, ToLowerCase(parsed[1].type), parsed[1].type),
                  ItemOf(parsed[1], commit.hash[1]))
    ELSE PushUnmatched(acc, commit)

\* The loop body without the test for merge commits.
GroupStepKeepingMerges(acc, typeMap, commit) ==
    IF acc.thrown THEN acc
    ELSE IF commit.message = None THEN Thrown(UndefinedTypeError)
    ELSE GroupOne(acc, typeMap, commit, parseCommitMessage(commit.message[1]))

GroupStep(acc, typeMap, commit) ==
    IF acc.thrown THEN acc
    ELSE IF commit.message = None THEN Thrown(UndefinedTypeError)
    ELSE IF StartsWith(commit.message[1], MergePrefix) THEN acc
    ELSE GroupOne(acc, typeMap, commit, parseCommitMessage(commit.message[1]))

RECURSIVE GroupLoop(_, _, _)
GroupLoop(acc, typeMap, commits) ==
    IF commits = <<>> THEN acc
    ELSE GroupLoop(GroupStep(acc, typeMap, Head(commits)), typeMap, Tail(commits))

groupCommits(commits, additionalTypes) ==
    GroupLoop(Returned([groups |-> <<>>, unmatched |-> <<>>]),
              DEFAULT_TYPES \o additionalTypes, commits)

priorityOrder ==
    <<<<"F", "e", "a", "t", "u", "r", "e", "s">>,
      <<"B", "u", "g", " ", "F", "i", "x", "e", "s">>,
      <<"D", "o", "c", "u", "m", "e", "n", "t", "a", "t", "i", "o", "n">>,
      <<"C", "h", "o", "r", "e", "s">>>>

\* A comparator that knows no priority list.
GroupOrderUnranked(a, b) == LocaleCompare(a, b)

\* The comparator of sortGroupNames.
GroupOrder(a, b) ==
    IF IndexOf(priorityOrder, a) # -1 /\ IndexOf(priorityOrder, b) # -1
    THEN IndexOf(priorityOrder, a) - IndexOf(priorityOrder, b)
    ELSE IF IndexOf(priorityOrder, a) # -1 THEN -1
    ELSE IF IndexOf(priorityOrder, b) # -1 THEN 1
    ELSE LocaleCompare(a, b)

RECURSIVE InsertGroupName(_, _)
InsertGroupName(sorted, x) ==
    IF sorted = <<>> THEN <<x>>
    ELSE IF GroupOrder(Head(sorted), x) <= 0
         THEN <<Head(sorted)>> \o InsertGroupName(Tail(sorted), x)
         ELSE <<x>> \o sorted

\* groupNames.sort(GroupOrder): a stable sort.
RECURSIVE sortGroupNames(_)
sortGroupNames(groupNames) ==
    IF groupNames = <<>> THEN <<>>
    ELSE InsertGroupName(sortGroupNames(SubSeq(groupNames, 1, Len(groupNames) - 1)),
                         groupNames[Len(groupNames)])

\* Object.keys(groupedCommits.groups)
GroupKeys(groups) == [i \in 1..Len(groups) |-> groups[i].name]

\* parseAndGroupCommits without its core.info lines.
GroupIfRetrieved(commits, additionalTypes) ==
    IF commits.thrown THEN commits ELSE groupCommits(commits.value, additionalTypes)

parseAndGroupCommits(g, baseRef, currentRef, additionalTypes) ==
    GroupIfRetrieved(getCommitsBetween(g, baseRef, currentRef), additionalTypes)

(***************************************************************************)
(* changelog-generator.js                                                   *)
(***************************************************************************)
\* The grave accent U+0060, which a string of this module cannot hold.
BackTick == "backtick"

months ==
    <<<<"J", "a", "n">>, <<"F", "e", "b">>, <<"M", "a", "r">>,
      <<"A", "p", "r">>, <<"M", "a", "y">>, <<"J", "u", "n">>,
      <<"J", "u", "l">>, <<"A", "u", "g">>, <<"S", "e", "p">>,
      <<"O", "c", "t">>, <<"N", "o", "v">>, <<"D", "e", "c">>>>

\* formatDate on the local date the clock shows (month 0-based).
formatDate(now) ==
    months[now.month + 1] \o <<" ">> \o NumToStr(now.day) \o <<",", " ">>
        \o NumToStr(now.year)

ChangelogHeader(version, date) ==
    <<"#", "#", " ">> \o version \o <<NL, "*">> \o date \o <<"*", NL, NL>>

NoChangesText == <<"_", "N", "o", " ", "c", "h", "a", "n", "g", "e", "s", " ", "r", "e", "c", "o", "r", "d", "e", "d", ".", "_", NL, NL>>

\* A rendering of the entries of a group from the last to the first.
RECURSIVE RenderItemsReversed(_)
RenderItemsReversed(items) ==
    IF items = <<>> THEN <<>>
    ELSE RenderItemsReversed(Tail(items))
         \o <<"-", " ", "*", "*">> \o Head(items).ticket \o <<"*", "*", ":", " ">>
         \o Head(items).description \o <<NL>>

RECURSIVE RenderItems(_)
RenderItems(items) ==
    IF items = <<>> THEN <<>>
    ELSE <<"-", " ", "*", "*">> \o Head(items).ticket \o <<"*", "*", ":", " ">> \o Head(items).description
         \o <<NL>> \o RenderItems(Tail(items))

RECURSIVE RenderUnmatched(_)
RenderUnmatched(unmatched) ==
    IF unmatched = <<>> THEN <<>>
    ELSE <<"-", " ">> \o Head(unmatched).message \o <<" ", "(", BackTick>>
         \o Head(unmatched).hash \o <<BackTick, ")", NL>>
         \o RenderUnmatched(Tail(unmatched))

NotIterableError == <<Lit("items is not iterable")>>

\* s + r for a text s and a result r.
Prepend(text, r) == IF r.thrown THEN r ELSE Returned(text \o r.value)

\* r + s for a result r and a text s.
Extend(r, text) == IF r.thrown THEN r ELSE Returned(r.value \o text)

\* The loop of lines 40-49; a name that is no key of groups makes the inner
\* for...of throw.
RECURSIVE RenderGroups(_, _)
RenderGroups(groups, names) ==
    IF names = <<>> THEN Returned(<<>>)
    ELSE IF ~HasGroup(groups, Head(names)) THEN Thrown(NotIterableError)
    ELSE Prepend(<<"#", "#", "#", " ">> \o Head(names) \o <<NL, NL>>
                 \o RenderItems(groups[GroupIndex(groups, Head(names))].items)
                 \o <<NL>>,
                 RenderGroups(groups, Tail(names)))

\* An Other section that does not ask for the flag.
OtherSectionUnasked(unmatched, includeUnmatched) ==
    IF Len(unmatched) > 0
    THEN <<"#", "#", "#", " ", "O", "t", "h", "e", "r", NL, NL>> \o RenderUnmatched(unmatched) \o <<NL>>
    ELSE <<>>

OtherSection(unmatched, includeUnmatched) ==
    IF includeUnmatched /\ Len(unmatched) > 0
    THEN <<"#", "#", "#", " ", "O", "t", "h", "e", "r", NL, NL>> \o RenderUnmatched(unmatched) \o <<NL>>
    ELSE <<>>

\* A rendering without the placeholder for an empty release.
generateChangelogUnmarked(version, groupedCommits, sortedGroupNames, includeUnmatched, now) ==
    Prepend(ChangelogHeader(version, formatDate(now)),
            Extend(RenderGroups(groupedCommits.groups, sortedGroupNames),
                   OtherSection(groupedCommits.unmatched, includeUnmatched)))

\* A rendering that marks every release without group names as empty.
generateChangelogMarkingUngrouped(version, groupedCommits, sortedGroupNames, includeUnmatched, now) ==
    IF Len(sortedGroupNames) = 0
    THEN Returned(ChangelogHeader(version, formatDate(now)) \o NoChangesText)
    ELSE Prepend(ChangelogHeader(version, formatDate(now)),
                 Extend(RenderGroups(groupedCommits.groups, sortedGroupNames),
                        OtherSection(groupedCommits.unmatched, includeUnmatched)))

generateChangelog(version, groupedCommits, sortedGroupNames, includeUnmatched, now) ==
    IF Len(sortedGroupNames) = 0 /\ Len(groupedCommits.unmatched) = 0
    THEN Returned(ChangelogHeader(version, formatDate(now)) \o NoChangesText)
    ELSE Prepend(ChangelogHeader(version, formatDate(now)),
                 Extend(RenderGroups(groupedCommits.groups, sortedGroupNames),
                        OtherSection(groupedCommits.unmatched, includeUnmatched)))

NewFileText == <<"#", " ", "C", "h", "a", "n", "g", "e", "l", "o", "g", NL, NL>>

TitleMark == <<"#", " ">>

SectionMark == <<"#", "#", " ">>

\* 1-based position of the first line starting with '# ', 0 if none.
FirstTitleLine(lines) ==
    IF \E i \in 1..Len(lines) : StartsWith(lines[i], TitleMark)
    THEN CHOOSE i \in 1..Len(lines) :
            /\ StartsWith(lines[i], TitleMark)
            /\ \A j \in 1..(i - 1) : ~StartsWith(lines[j], TitleMark)
    ELSE 0

\* The while loop of lines 99-101 on the 0-based insertIndex.
RECURSIVE SkipEmptyLines(_, _)
SkipEmptyLines(lines, insertIndex) ==
    IF insertIndex < Len(lines) /\ Trim(lines[insertIndex + 1]) = <<>>
    THEN SkipEmptyLines(lines, insertIndex + 1)
    ELSE insertIndex

\* Lines 93-104 with the search for a title left out.
InsertIndexAtTop(lines, title) == 0

\* Lines 93-104: the 0-based insertIndex.
InsertIndexOf(lines, title) == IF title = 0 THEN 0 ELSE SkipEmptyLines(lines, title)

\* A splice that leaves out the lines from the insertion point on.
SpliceAtDroppingRest(lines, insertIndex, changelogContent) ==
    Join(SliceTo(lines, insertIndex), <<NL>>) \o <<NL>> \o changelogContent

SpliceAt(lines, insertIndex, changelogContent) ==
    Join(SliceTo(lines, insertIndex), <<NL>>) \o <<NL>> \o changelogContent
        \o Join(SliceFrom(lines, insertIndex), <<NL>>)

InsertSection(lines, changelogContent) ==
    SpliceAt(lines, InsertIndexOf(lines, FirstTitleLine(lines)), changelogContent)

FsError == <<Lit("EACCES: permission denied")>>

\* The outcome of updateChangelogFile: what it returned or threw, the file
\* afterwards, the number of fs.writeFileSync calls it made, and what it
\* logged through core.
FileOutcome(r, f, writes, log) ==
    [thrown |-> r.thrown, value |-> r.value, message |-> r.message, file |-> f,
     writes |-> writes, log |-> log]

Info(msg) == [level |-> "info", message |-> msg]

Warning(msg) == [level |-> "warning", message |-> msg]

ErrorLog(msg) == [level |-> "error", message |-> msg]

FailedUpdate(f, changelogPath, log) ==
    FileOutcome(Thrown(FsError), f, 1,
                Append(log, ErrorLog(<<Lit("Failed to update "), Val(changelogPath),
                                       Lit(": ")>> \o FsError)))

\* Line 86 with every version counted as new.
NeverRecorded(existingContent, version) == FALSE

\* Line 86: existingContent.includes of the section mark and the version.
AlreadyRecorded(existingContent, version) ==
    Includes(existingContent, SectionMark \o version)

SkipMessage(changelogPath, version) ==
    <<Lit("Version "), Val(version), Lit(" already exists in "), Val(changelogPath),
      Lit(", skipping update")>>

\* Lines 87-88 with the file rewritten as a new one.
SkipUpdateRewriting(f, changelogPath, version, log) ==
    FileOutcome(Returned(FALSE), [exists |-> TRUE, content |-> NewFileText], 1,
                Append(log, Info(SkipMessage(changelogPath, version))))

\* Lines 87-88: the early return.
SkipUpdate(f, changelogPath, version, log) ==
    FileOutcome(Returned(FALSE), f, 0,
                Append(log, Info(SkipMessage(changelogPath, version))))

\* Lines 85-115, with existingContent read or synthesized.
UpdateExisting(f, fault, changelogPath, version, changelogContent, existingContent, log) ==
    IF AlreadyRecorded(existingContent, version)
    THEN SkipUpdate(f, changelogPath, version, log)
    ELSE IF fault = "write" THEN FailedUpdate(f, changelogPath, log)
    ELSE FileOutcome(Returned(TRUE),
                     [exists |-> TRUE,
                      content |-> InsertSection(Split(existingContent, {NL}),
                                                changelogContent)],
                     1,
                     Append(log, Info(<<Lit("Successfully updated "),
                                        Val(changelogPath)>>)))

\* updateChangelogFile on the file f; fault is "write" when
\* fs.writeFileSync throws in this call, else "none".
updateChangelogFile(f, fault, changelogPath, version, changelogContent) ==
    IF f.exists
    THEN UpdateExisting(f, fault, changelogPath, version, changelogContent,
                        f.content, <<>>)
    ELSE UpdateExisting(f, fault, changelogPath, version, changelogContent, NewFileText,
                        <<Info(<<Lit("Creating new "), Val(changelogPath)>>)>>)

NoFile == [exists |-> FALSE, content |-> <<>>]

\* The releases GitHub holds, oldest first, and the calls made to its API.
NoReleases == [releases |-> <<>>, calls |-> <<>>]

\* 1-based position of the release of tag, 0 if there is none.
ReleaseOfTag(releases, tag) ==
    IF \E i \in 1..Len(releases) : releases[i].tag_name = tag
    THEN CHOOSE i \in 1..Len(releases) : releases[i].tag_name = tag
    ELSE 0

ReleaseOfId(releases, id) ==
    IF \E i \in 1..Len(releases) : releases[i].id = id
    THEN CHOOSE i \in 1..Len(releases) : releases[i].id = id
    ELSE 0

NotFound == <<Lit("Not Found")>>

ServerError == <<Lit("Server Error")>>

ValidationFailed == <<Lit("Validation Failed")>>

\* The answer of an API call together with GitHub afterwards.
Answer(r, gh, call) ==
    [thrown |-> r.thrown, value |-> r.value, message |-> r.message,
     github |-> [gh EXCEPT !.calls = Append(@, call)]]

ApiCall(method, params, r) ==
    [method |-> method, params |-> params, thrown |-> r.thrown, response |-> r.value]

Answered(method, params, r, gh) == Answer(r, gh, ApiCall(method, params, r))

FoundRelease(releases, at) ==
    IF at = 0 THEN Thrown(NotFound) ELSE Returned([data |-> releases[at]])

\* github.rest.repos.getReleaseByTag; fault is "api" when the request fails
\* for a reason of its own, else "none".
getReleaseByTag(gh, params, fault) ==
    Answered("getReleaseByTag", params,
             IF fault = "api" THEN Thrown(ServerError)
             ELSE FoundRelease(gh.releases, ReleaseOfTag(gh.releases, params.tag)),
             gh)

Updated(release, params) ==
    [release EXCEPT !.body = params.body, !.draft = params.draft,
                    !.prerelease = params.prerelease]

UpdateAt(gh, params, at) ==
    IF at = 0 THEN Answered("updateRelease", params, Thrown(NotFound), gh)
    ELSE Answered("updateRelease", params,
                  Returned([data |-> Updated(gh.releases[at], params)]),
                  [gh EXCEPT !.releases[at] = Updated(@, params)])

\* github.rest.repos.updateRelease
updateRelease(gh, params, fault) ==
    IF fault = "api" THEN Answered("updateRelease", params, Thrown(ServerError), gh)
    ELSE UpdateAt(gh, params, ReleaseOfId(gh.releases, params.release_id))

ReleasesUrl ==
    <<"h", "t", "t", "p", "s", ":", "/", "/", "g", "i", "t", "h", "u", "b", ".", "c", "o", "m", "/", "o", "/", "r", "/", "r", "e", "l", "e", "a", "s", "e", "s", "/", "t", "a", "g", "/">>

Created(gh, params) ==
    [id |-> Len(gh.calls) + Len(gh.releases) + 1, tag_name |-> params.tag_name,
     name |-> params.name, body |-> params.body, draft |-> params.draft,
     prerelease |-> params.prerelease, html_url |-> ReleasesUrl \o params.tag_name]

\* github.rest.repos.createRelease: a tag that has a release cannot get a
\* second one.
createRelease(gh, params, fault) ==
    IF fault = "api" THEN Answered("createRelease", params, Thrown(ServerError), gh)
    ELSE IF ReleaseOfTag(gh.releases, params.tag_name) # 0
    THEN Answered("createRelease", params, Thrown(ValidationFailed), gh)
    ELSE Answered("createRelease", params, Returned([data |-> Created(gh, params)]),
                  [gh EXCEPT !.releases = Append(@, Created(gh, params))])

\* createOrUpdateRelease up to the end of its inner try, lines 135-151: what
\* it holds in release and isUpdate, what it logged, and GitHub afterwards.
LookedUp(r, tag) ==
    [isUpdate |-> ~r.thrown,
     release |-> IF r.thrown THEN None ELSE Some(r.value),
     log |-> <<Info(IF r.thrown
                    THEN <<Lit("No existing release found for "), Val(tag),
                           Lit(", will create new one")>>
                    ELSE <<Lit("Found existing release for "), Val(tag),
                           Lit(", will update it")>>)>>,
     github |-> r.github]

LookUpRelease(gh, tag, fault) == LookedUp(getReleaseByTag(gh, [tag |-> tag], fault), tag)

\* Lines 181-184 with the failure swallowed: nothing is logged or thrown.
PublishedSwallowing(r, tag, done) ==
    IF r.thrown
    THEN [result |-> Returned(<<>>), log |-> <<>>, github |-> r.github]
    ELSE [result |-> Returned(r.value.data.html_url),
          log |-> <<Info(<<Lit("Successfully "), Lit(done), Lit(" release for "),
                           Val(tag)>>)>>,
          github |-> r.github]

\* Lines 164-165, 179-180 and 181-184 on the answer r of the second call.
Published(r, tag, done) ==
    IF r.thrown
    THEN [result |-> Thrown(r.message),
          log |-> <<ErrorLog(<<Lit("Failed to create/update release: ")>> \o r.message)>>,
          github |-> r.github]
    ELSE [result |-> Returned(r.value.data.html_url),
          log |-> <<Info(<<Lit("Successfully "), Lit(done), Lit(" release for "),
                           Val(tag)>>)>>,
          github |-> r.github]

\* Lines 153-180 with the outcome of the lookup ignored: always a create.
PublishByCreate(gh, found, tag, releaseNotes, isDraft, isPrerelease, fault) ==
    Published(createRelease(gh, [tag_name |-> tag, name |-> tag, body |-> releaseNotes,
                                 draft |-> isDraft, prerelease |-> isPrerelease],
                            fault),
              tag, "created")

\* createOrUpdateRelease from line 153 on, with found what the lookup left
\* in isUpdate and release.
Publish(gh, found, tag, releaseNotes, isDraft, isPrerelease, fault) ==
    IF found.isUpdate
    THEN Published(updateRelease(gh, [release_id |-> found.release[1].data.id,
                                      body |-> releaseNotes, draft |-> isDraft,
                                      prerelease |-> isPrerelease],
                                 fault),
                   tag, "updated")
    ELSE Published(createRelease(gh, [tag_name |-> tag, name |-> tag,
                                      body |-> releaseNotes, draft |-> isDraft,
                                      prerelease |-> isPrerelease],
                                 fault),
                   tag, "created")

(***************************************************************************)
(* index.js                                                                 *)
(***************************************************************************)
NoCore == [log |-> <<>>, outputs |-> <<>>, failed |-> <<>>]

NoLocal == [currentTag |-> None, baseTag |-> None, groupedCommits |-> None,
            sortedGroupNames |-> None, changelog |-> None, found |-> None,
            error |-> None]

NoRequests == <<>>

\* The state of the variables of run while no run is under way.
NoRun ==
    core = NoCore /\ github = NoReleases /\ local = NoLocal /\ fswrites = 0
    /\ backend = NoRequests

Infos(c, msgs) == [c EXCEPT !.log = @ \o [i \in 1..Len(msgs) |-> Info(msgs[i])]]

Logged(c, entries) == [c EXCEPT !.log = @ \o entries]

setOutput(c, name, value) ==
    [c EXCEPT !.outputs = Append(@, [name |-> name, value |-> value])]

setFailed(c, message) == [c EXCEPT !.failed = Append(@, message)]

\* Lines 117-118 without the call of core.setFailed.
AbortQuietly(c, error) == c

\* Lines 117-118: the catch of run, before it rethrows error.
Abort(c, error) == setFailed(c, <<Lit("Action failed: ")>> \o error)

Rejected(c, error) ==
    /\ core' = Abort(c, error)
    /\ local' = [local EXCEPT !.error = Some(error)]
    /\ pc' = "rejected"

StartInfo ==
    << <<Lit("Starting release notes generation...")>>,
       <<Lit("Step 1: Resolving tags")>> >>

\* Line 45; the arrow of the message is written in ASCII.
ComparingInfo(tags) ==
    <<Lit("Comparing "), Val(tags.baseTag), Lit(" -> "), Val(tags.currentTag)>>

Resolved(r) ==
    IF r.thrown THEN Rejected(Infos(core, StartInfo \o r.info), r.message)
    ELSE /\ core' = Infos(core, StartInfo \o r.info \o <<ComparingInfo(r.value)>>)
         /\ local' = [local EXCEPT !.currentTag = Some(r.value.currentTag),
                                   !.baseTag = Some(r.value.baseTag)]
         /\ pc' = "resolved"

\* Lines 35-45.
RunResolveTags ==
    /\ pc = "start"
    /\ Resolved(resolveTags(git, config.currentTag, config.baseTag))
    /\ UNCHANGED <<config, git, file, ncalls, ret, github, fswrites, backend>>

RECURSIVE MatchedCount(_)
MatchedCount(groups) ==
    IF groups = <<>> THEN 0 ELSE Len(Head(groups).items) + MatchedCount(Tail(groups))

\* What parseAndGroupCommits logs after the grouping, lines 173-174.
GroupedInfo(grouped) ==
    << <<Lit("Parsed "), Val(NumToStr(MatchedCount(grouped.groups))),
         Lit(" commits into "), Val(NumToStr(Len(grouped.groups))), Lit(" groups")>>,
       <<Lit("Found "), Val(NumToStr(Len(grouped.unmatched))),
         Lit(" unmatched commits")>> >>

\* What run and parseAndGroupCommits log up to the point they reach.
ClassifyInfo(commits, grouped) ==
    << <<Lit("Step 2: Parsing and grouping commits")>>,
       <<Lit("Getting commits from "), Val(local.baseTag[1]), Lit(" to "),
         Val(local.currentTag[1])>> >>
    \o (IF commits.thrown THEN <<>>
        ELSE << <<Lit("Found "), Val(NumToStr(Len(commits.value))),
                  Lit(" commits to process")>> >>
             \o (IF grouped.thrown THEN <<>> ELSE GroupedInfo(grouped.value)))

Classified(commits, grouped) ==
    IF grouped.thrown
    THEN Rejected(Infos(core, ClassifyInfo(commits, grouped)), grouped.message)
    ELSE /\ core' = Infos(core, ClassifyInfo(commits, grouped))
         /\ local' = [local EXCEPT
                         !.groupedCommits = Some(grouped.value),
                         !.sortedGroupNames =
                             Some(sortGroupNames(GroupKeys(grouped.value.groups)))]
         /\ pc' = "classified"

ClassifiedFrom(commits) ==
    Classified(commits, GroupIfRetrieved(commits, config.additionalTypes))

\* Lines 47-59.
RunClassify ==
    /\ pc = "resolved"
    /\ ClassifiedFrom(getCommitsBetween(git, local.baseTag[1], local.currentTag[1]))
    /\ UNCHANGED <<config, git, file, ncalls, ret, github, fswrites, backend>>

Rendered(r) ==
    IF r.thrown
    THEN Rejected(Infos(core, << <<Lit("Step 3: Generating changelog")>> >>), r.message)
    ELSE /\ core' = Infos(core, << <<Lit("Step 3: Generating changelog")>>,
                                   <<Lit("Generated changelog:")>>,
                                   <<Lit("---")>>,
                                   <<Val(r.value)>>,
                                   <<Lit("---")>> >>)
         /\ local' = [local EXCEPT !.changelog = Some(r.value)]
         /\ pc' = "rendered"

\* The date the run is made on.
RunClocks == { [month |-> 10, day |-> 2, year |-> 2026] }

\* Lines 61-73.
RunRender ==
    /\ pc = "classified"
    /\ \E now \in RunClocks :
          Rendered(generateChangelog(local.currentTag[1], local.groupedCommits[1],
                                     local.sortedGroupNames[1], config.includeUnmatched,
                                     now))
    /\ UNCHANGED <<config, git, file, ncalls, ret, github, fswrites, backend>>

\* Lines 76-78.
RunSetOutputs ==
    /\ pc = "rendered"
    /\ core' = setOutput(setOutput(setOutput(core, "changelog", local.changelog[1]),
                                   "current_tag", local.currentTag[1]),
                         "base_tag", local.baseTag[1])
    /\ pc' = "outputs"
    /\ UNCHANGED <<config, git, file, ncalls, ret, github, local, fswrites, backend>>

\* The pc after lines 81-93 with the run taken back to line 76.
AfterPersistAgain == "rendered"

\* The pc after lines 81-93.
AfterPersist == "persisted"

PersistWarning(out) ==
    IF out.thrown
    THEN <<Warning(<<Lit("Failed to update CHANGELOG.md: ")>> \o out.message)>>
    ELSE <<>>

Persisted(out) ==
    /\ file' = out.file
    /\ fswrites' = fswrites + out.writes
    /\ core' = Logged(Infos(core, << <<Lit("Step 4: Updating CHANGELOG.md")>> >>),
                      out.log \o PersistWarning(out))

\* Lines 81-93.
RunPersist ==
    /\ pc = "outputs"
    /\ IF config.updateChangelog
       THEN \E fault \in {"none", "write"} :
               Persisted(updateChangelogFile(file, fault, config.changelogPath,
                                             local.currentTag[1], local.changelog[1]))
       ELSE UNCHANGED <<file, fswrites, core>>
    /\ pc' = AfterPersist
    /\ UNCHANGED <<config, git, ncalls, ret, github, local, backend>>

\* Line 116; the message is written without its check mark.
CompletedInfo == <<Lit("Release notes generation completed successfully!")>>

\* Lines 96 and 116 of a run that is not to publish.
RunFinish ==
    /\ pc = "persisted"
    /\ ~config.createRelease
    /\ core' = Infos(core, <<CompletedInfo>>)
    /\ pc' = "done"
    /\ UNCHANGED <<config, git, file, ncalls, ret, github, local, fswrites, backend>>

Looked(found) ==
    /\ github' = found.github
    /\ local' = [local EXCEPT !.found = Some([isUpdate |-> found.isUpdate,
                                              release |-> found.release])]
    /\ core' = Logged(Infos(core, << <<Lit("Step 5: Creating/updating GitHub Release")>> >>),
                      found.log)

\* Lines 96-99 and createOrUpdateRelease up to its second await.
RunLookup ==
    /\ pc = "persisted"
    /\ config.createRelease
    /\ \E fault \in {"none", "api"} :
          Looked(LookUpRelease(github, local.currentTag[1], fault))
    /\ pc' = "lookedUp"
    /\ UNCHANGED <<config, git, file, ncalls, ret, fswrites, backend>>

\* Lines 109-113 and 116.
PublishedCore(c, result) ==
    IF result.thrown
    THEN Infos(Logged(c, <<Warning(<<Lit("Failed to create/update release: ")>>
                                   \o result.message)>>),
               <<CompletedInfo>>)
    ELSE Infos(setOutput(c, "release_url", result.value),
               << <<Lit("Release URL: "), Val(result.value)>>, CompletedInfo >>)

PublishedRun(out) ==
    /\ github' = out.github
    /\ ret' = Some(out.result)
    /\ core' = PublishedCore(Logged(core, out.log), out.result)

\* The rest of createOrUpdateRelease and lines 109-116.
RunPublish ==
    /\ pc = "lookedUp"
    /\ \E fault \in {"none", "api"} :
          PublishedRun(Publish(github, local.found[1], local.currentTag[1],
                               local.changelog[1], config.releaseDraft,
                               config.releasePrerelease, fault))
    /\ pc' = "done"
    /\ UNCHANGED <<config, git, file, ncalls, local, fswrites, backend>>

(***************************************************************************)
(* upload-sdk-version: the composite action                                 *)
(***************************************************************************)
VALID_PLATFORMS == << <<"i", "o", "s">>, <<"a", "n", "d", "r", "o", "i", "d">>,
                      <<"f", "l", "u", "t", "t", "e", "r">>, <<"r", "n">>,
                      <<"u", "n", "i", "t", "y">> >>

\* [[ ! " ${VALID_PLATFORMS[@]} " =~ " <platform> " ]]: the platforms joined
\* by blanks between two blanks; the quoted right-hand side is matched as
\* it is written, anywhere in the left-hand side.
InvalidPlatform(platform) ==
    ~Includes(<<" ">> \o Join(VALID_PLATFORMS, <<" ">>) \o <<" ">>,
              <<" ">> \o platform \o <<" ">>)

\* == of the expression of a step's if, on two strings: whatever the letter
\* case.
ExprEqualsExactly(a, b) == a = b

ExprEquals(a, b) == ToLowerCase(a) = ToLowerCase(b)

\* inputs.dryRun == 'true'; the publish step has inputs.dryRun != 'true'.
IsDryRun(inputs) == ExprEquals(inputs.dryRun, <<"t", "r", "u", "e">>)

Notice(msg) == [level |-> "notice", message |-> msg]

Echo(msg) == [level |-> "echo", message |-> msg]

Statuses ==
    { <<"2", "0", "0">>,
        <<"2", "0", "1">>,
        <<"4", "0", "0">>,
        <<"4", "0", "4">>,
        <<"4", "0", "9">>,
        <<"5", "0", "0">>,
        <<"5", "0", "3">> }

\* What curl got: the status of the response, or no response at all.
CurlOutcomes == {None} \cup { Some(status) : status \in Statuses }

Request(method, url, outcome) == [method |-> method, url |-> url, response |-> outcome]

\* curl -f: the exit status is not 0 when there is no response or the
\* status of the response is 400 or more.
CurlFails(outcome) == outcome = None \/ outcome[1][1] \in {"4", "5"}

\* A step of the job that ended: the log it wrote and whether it exited
\* with an error.
StepEnded(log, failed) == [log |-> log, failed |-> failed]

Publishing(inputs) ==
    <<Lit("Publishing the version "), Val(inputs.version), Lit(" for the "),
      Val(inputs.platform), Lit(" SDK")>>

\* Lines 46-51 of action.yml: the publish step that is a curl -f.
PublishedOrNot(inputs, outcome) ==
    StepEnded(<<Echo(Publishing(inputs))>>, CurlFails(outcome))

AlreadyExists(inputs) == <<Lit("Version "), Val(inputs.version), Lit(" already exists.")>>

ServerErrorEntry == ErrorLog(<<Lit("Server error. Couldn't submit new version")>>)

Pushed(inputs, STATUS) ==
    Notice(<<Lit("Version "), Val(inputs.version), Lit("pushed. Status: "), Val(STATUS)>>)

\* Lines 89-101 with the conflict failing whatever failOnConflict is.
StatusHandledStrictly(inputs, STATUS) ==
    IF STATUS = <<"4", "0", "9">>
    THEN StepEnded(<<ErrorLog(AlreadyExists(inputs))>>, TRUE)
    ELSE IF StartsWith(STATUS, <<"5">>) THEN StepEnded(<<ServerErrorEntry>>, TRUE)
    ELSE StepEnded(<<Pushed(inputs, STATUS)>>, FALSE)

\* Lines 89-101 of the action with failOnConflict.
StatusHandled(inputs, STATUS) ==
    IF STATUS = <<"4", "0", "9">>
    THEN IF inputs.failOnConflict[1] = <<"t", "r", "u", "e">>
         THEN StepEnded(<<ErrorLog(AlreadyExists(inputs))>>, TRUE)
         ELSE StepEnded(<<Warning(AlreadyExists(inputs))>>, FALSE)
    ELSE IF StartsWith(STATUS, <<"5">>) THEN StepEnded(<<ServerErrorEntry>>, TRUE)
    ELSE StepEnded(<<Pushed(inputs, STATUS)>>, FALSE)

AfterNotice(inputs, step) == [step EXCEPT !.log = <<Notice(Publishing(inputs))>> \o @]

\* Lines 81-101: under bash -e the step ends at STATUS=$(curl ...) when curl
\* exits with an error, as it does when it gets no response.
StatusChecked(inputs, outcome) ==
    AfterNotice(inputs, IF outcome = None THEN StepEnded(<<>>, TRUE)
                        ELSE StatusHandled(inputs, outcome[1]))

\* The action without the failOnConflict input is action.yml; the action
\* with it checks the status itself.
PublishStep(inputs, outcome) ==
    IF inputs.failOnConflict = None THEN PublishedOrNot(inputs, outcome)
    ELSE StatusChecked(inputs, outcome)

CheckTokenUrl(inputs) == inputs.uploadUrl \o <<"/", "c", "h", "e", "c", "k", "-", "t", "o", "k", "e", "n", "/">>

VersionUrl(inputs) ==
    inputs.uploadUrl \o <<"/">> \o inputs.platform \o <<"/", "v", "e", "r", "s", "i", "o", "n", "/">>

\* The line the first step prints: a plain echo in action.yml, an error
\* command in the action with failOnConflict.
InvalidEntry(inputs) ==
    IF inputs.failOnConflict = None
    THEN Echo(<<Lit("Invalid platform: "), Val(inputs.platform)>>)
    ELSE ErrorLog(<<Lit("Invalid platform: "), Val(inputs.platform)>>)

\* A step that ran: what it logged; a step that exits with an error fails
\* the job, whose later steps are skipped.
StepRan(step, next) ==
    /\ core' = Logged(core, step.log)
    /\ pc' = IF step.failed THEN "failure" ELSE next

\* step: Validate platform.
ValidatePlatform ==
    /\ pc = "platform"
    /\ IF InvalidPlatform(config.platform)
       THEN StepRan(StepEnded(<<InvalidEntry(config)>>, TRUE), "token")
       ELSE StepRan(StepEnded(<<>>, FALSE), "token")
    /\ UNCHANGED <<config, git, file, ncalls, ret, github, local, fswrites, backend>>

\* step: Validate token (dry run).
ValidateToken ==
    /\ pc = "token"
    /\ IF IsDryRun(config)
       THEN \E outcome \in CurlOutcomes :
               /\ backend' = Append(backend, Request("GET", CheckTokenUrl(config), outcome))
               /\ StepRan(StepEnded(<<Echo(<<Lit("Validating token")>>)>>,
                                    CurlFails(outcome)), "publish")
       ELSE pc' = "publish" /\ UNCHANGED <<backend, core>>
    /\ UNCHANGED <<config, git, file, ncalls, ret, github, local, fswrites>>

\* step: Publish version.
PublishVersion ==
    /\ pc = "publish"
    /\ IF ~IsDryRun(config)
       THEN \E outcome \in CurlOutcomes :
               /\ backend' = Append(backend, Request("POST", VersionUrl(config), outcome))
               /\ StepRan(PublishStep(config, outcome), "success")
       ELSE pc' = "success" /\ UNCHANGED <<backend, core>>
    /\ UNCHANGED <<config, git, file, ncalls, ret, github, local, fswrites>>

(***************************************************************************)
(* Repositories and inputs the tag resolver is run on                       *)
(***************************************************************************)
TagPool ==
    { <<"v", "1", ".", "0", ".", "0">>,
      <<"v", "1", ".", "0", ".", "0", "-", "r", "c", "1">>,
      <<"v", "1", ".", "0", ".", "0", "-", "r", "c", "2">>,
      <<"v", "1", ".", "0", ".", "0", "-", "r", "c", "1", "0">>,
      <<"v", "1", ".", "1", ".", "0">>,
      <<"v", "2", ".", "0", ".", "0">>,
      <<"1", ".", "0", ".", "0">> }

AbsentTag == <<"v", "9", ".", "9", ".", "9">>

InitialCommitHash == <<"a", "b", "c", "1", "2", "3", "d", "e", "f", "4", "5", "6">>

\* Lists of distinct tags, in any order (the order of git tag depends on tag.sort).
TagLists(n) ==
    UNION { { s \in [1..k -> TagPool] : \A i, j \in 1..k : i # j => s[i] # s[j] } : k \in 0..n }

GitFailures == {{}, {"tag"}, {"revlist"}}

InitTags ==
    /\ git \in [tags : TagLists(MaxTags), initialCommit : {InitialCommitHash},
                failing : GitFailures]
    /\ config \in [currentTag : {None, Some(<<>>), Some(Latest), Some(AbsentTag)}
                                  \cup {Some(t) : t \in TagPool},
                   baseTag : {None, Some(<<>>), Some(AbsentTag),
                              Some(<<"v", "2", ".", "0", ".", "0">>)}]
    /\ file = NoFile
    /\ pc = "call"
    /\ ncalls = 0
    /\ ret = None
    /\ NoRun

CallResolveTags ==
    /\ pc = "call"
    /\ ret' = Some(resolveTags(git, config.currentTag, config.baseTag))
    /\ pc' = "returned"
    /\ ncalls' = ncalls + 1
    /\ UNCHANGED <<config, git, file, core, github, local, fswrites, backend>>

NextTags == CallResolveTags

SpecTags == InitTags /\ [][NextTags]_vars

(***************************************************************************)
(* Tag resolver claims (checked under SpecTags)                             *)
(***************************************************************************)
TagSet == {git.tags[i] : i \in 1..Len(git.tags)}

LatestRequested == Falsy(config.currentTag) \/ config.currentTag = Some(Latest)

MessageHas(msg, text) == \E i \in 1..Len(msg) : msg[i] = Lit(text)

\* C9: when the current tag is requested as 'latest' (or left empty), the
\* resolved current tag is a tag of the repository that no tag compares
\* strictly greater than; with an empty tag list the resolution throws an
\* error whose message holds 'No tags found in repository'.
C9_LatestIsGreatest ==
    (pc = "returned" /\ LatestRequested /\ "tag" \notin git.failing) =>
        IF git.tags = <<>>
        THEN ret[1].thrown /\ MessageHas(ret[1].message, "No tags found in repository")
        ELSE /\ ~MessageHas(ret[1].message, "No tags found in repository")
             /\ ~ret[1].thrown =>
                   /\ ret[1].value.currentTag \in TagSet
                   /\ \A t \in TagSet : compareSemver(t, ret[1].value.currentTag) <= 0

C9_Witness ==
    /\ pc = "returned"
    /\ config.currentTag = Some(Latest)
    /\ Len(git.tags) = MaxTags
    /\ ~ret[1].thrown
    /\ ret[1].value.currentTag # git.tags[1]
    /\ \E t \in TagSet : compareSemver(t, ret[1].value.currentTag) < 0

\* Position of a tag in the list git reports.
GitIndex(t) == CHOOSE i \in 1..Len(git.tags) : git.tags[i] = t

\* The tags that come after cur in the descending order: the strictly
\* smaller ones, and the equal ones git lists after it (the sort is stable).
OlderThan(cur) ==
    { t \in TagSet : \/ compareSemver(t, cur) < 0
                     \/ /\ compareSemver(t, cur) = 0
                        /\ GitIndex(t) > GitIndex(cur) }

\* C10: with no base supplied, a successful resolution yields as base the tag
\* right after current in the descending order (never greater than current,
\* no tag strictly between the two), and the initial commit identifier
\* exactly when current is the last tag of that order.
C10_BaseIsNextOlder ==
    (pc = "returned" /\ Falsy(config.baseTag) /\ ~ret[1].thrown) =>
        LET cur == ret[1].value.currentTag
            base == ret[1].value.baseTag
        IN  /\ cur \in TagSet
            /\ IF OlderThan(cur) = {}
               THEN base = git.initialCommit
               ELSE /\ base \in OlderThan(cur)
                    /\ compareSemver(base, cur) <= 0
                    /\ \A t \in OlderThan(cur) : compareSemver(t, base) <= 0
                    /\ \A t \in TagSet :
                          ~(compareSemver(base, t) < 0 /\ compareSemver(t, cur) < 0)

C10_Witness ==
    /\ pc = "returned"
    /\ config.baseTag = None
    /\ Len(git.tags) = MaxTags
    /\ ~ret[1].thrown
    /\ ret[1].value.baseTag \in TagSet
    /\ ret[1].value.currentTag = git.tags[1]
    /\ ret[1].value.baseTag = git.tags[MaxTags]
    /\ \E t \in TagSet : compareSemver(t, ret[1].value.currentTag) > 0

\* The requested current tag is a name that git tag, which works, does not
\* list.
CurrentAbsent ==
    /\ ~LatestRequested
    /\ "tag" \notin git.failing
    /\ config.currentTag[1] \notin TagSet

NotFoundMessage(tag) == <<Lit("Tag "), Val(tag), Lit(" not found in repository")>>

FailedNotFound(r, tag) == r.thrown /\ r.message = NotFoundMessage(tag)

\* C11 as stated: whenever the current tag is absent from the tag list,
\* resolveTags throws 'Tag <tag> not found in repository'.
C11_AbsentCurrentFails ==
    (pc = "returned" /\ CurrentAbsent) => FailedNotFound(ret[1], config.currentTag[1])

\* C11 (amended): when no base is supplied and the current tag is absent
\* from the tag list, resolveTags throws 'Tag <tag> not found in
\* repository' and returns no pair.
C11_AbsentCurrentFailsWithoutBase ==
    (pc = "returned" /\ CurrentAbsent /\ Falsy(config.baseTag)) =>
        FailedNotFound(ret[1], config.currentTag[1])

\* The resolver threw for a current tag that a repository with tags does
\* not have, no base being supplied.
C11_Witness ==
    /\ pc = "returned"
    /\ CurrentAbsent
    /\ config.baseTag = None
    /\ Len(git.tags) = MaxTags
    /\ FailedNotFound(ret[1], config.currentTag[1])

BothExplicit == ~LatestRequested /\ ~Falsy(config.baseTag)

\* C29: with an explicit current tag (not 'latest') and an explicit base,
\* resolveTags returns that pair as it is given and never fails: the tag
\* list is not asked (a failing git changes nothing), the current tag need
\* not be a tag of the repository and the base may be newer than it.
C29_ExplicitPairVerbatim ==
    (pc = "returned" /\ BothExplicit) =>
        /\ ~ret[1].thrown
        /\ ret[1].value = [currentTag |-> config.currentTag[1], baseTag |-> config.baseTag[1]]

\* A base newer than the current tag, both tags of the repository, is
\* returned with it.
C29_Witness ==
    /\ pc = "returned"
    /\ BothExplicit
    /\ config.currentTag[1] \in TagSet
    /\ config.baseTag[1] \in TagSet
    /\ compareSemver(config.baseTag[1], config.currentTag[1]) > 0
    /\ ~ret[1].thrown
    /\ ret[1].value.baseTag = config.baseTag[1]

(***************************************************************************)
(* Direct calls of updateChangelogFile on one changelog file                *)
(***************************************************************************)
ChangelogPath == <<"C", "H", "A", "N", "G", "E", "L", "O", "G", ".", "m", "d">>

ChangelogTags ==
    { <<"v", "1", ".", "0", ".", "0">>,
      <<"v", "1", ".", "0", ".", "0", "-", "r", "c", "1">>,
      <<"v", "2", ".", "0", ".", "0">> }

Clocks == { [month |-> 0, day |-> 5, year |-> 2026],
            [month |-> 11, day |-> 31, year |-> 2026] }

SampleCommits ==
    << [hash |-> Some(<<"0", "1", "2", "3", "4", "5", "6", "7", "8", "9">>),
        message |-> Some(<<"[", "E", "M", "B", "R", "-", "1", "]", " ", "F", "e", "a", "t", "u", "r", "e", ":", " ", "A">>)],
       [hash |-> Some(<<"1", "1", "2", "3", "4", "5", "6", "7", "8", "9">>),
        message |-> Some(<<"U", "p", "d", "a", "t", "e", " ", "d", "e", "p", "s">>)] >>

\* What generateChangelog is given to render: nothing, or one grouped and
\* one unmatched commit.
SectionInputs ==
    { [grouped |-> [groups |-> <<>>, unmatched |-> <<>>], includeUnmatched |-> FALSE],
      [grouped |-> groupCommits(SampleCommits, <<>>).value, includeUnmatched |-> TRUE] }

SectionFor(version, input, now) ==
    generateChangelog(version, input.grouped,
                      sortGroupNames(GroupKeys(input.grouped.groups)),
                      input.includeUnmatched, now).value

RecordedSection ==
    SectionFor(<<"v", "1", ".", "0", ".", "0", "-", "r", "c", "1">>,
               [grouped |-> [groups |-> <<>>, unmatched |-> <<>>],
                includeUnmatched |-> FALSE],
               [month |-> 0, day |-> 5, year |-> 2026])

\* The files the calls start from: none, a title alone (with and without
\* the trailing blank line), a title over one recorded section, one
\* recorded section without any title, and a file whose only '# ' line
\* stands below a recorded section.
InitialFiles ==
    { NoFile,
      [exists |-> TRUE, content |-> NewFileText],
      [exists |-> TRUE, content |-> <<"#", " ", "C", "h", "a", "n", "g", "e", "l", "o", "g">>],
      [exists |-> TRUE, content |-> NewFileText \o RecordedSection],
      [exists |-> TRUE, content |-> RecordedSection],
      [exists |-> TRUE,
       content |-> RecordedSection \o <<"#", " ", "N", "o", "t", "e", "s", NL, NL>>] }

InitChangelog ==
    /\ file \in InitialFiles
    /\ config = [changelogPath |-> ChangelogPath]
    /\ git = [tags |-> <<>>, initialCommit |-> InitialCommitHash, failing |-> {}]
    /\ pc = "call"
    /\ ncalls = 0
    /\ ret = None
    /\ NoRun

RecordUpdate(version, changelogContent, fault, out) ==
    /\ file' = out.file
    /\ ret' = Some([version |-> version, changelogContent |-> changelogContent,
                    fault |-> fault, before |-> file, thrown |-> out.thrown,
                    value |-> out.value, writes |-> out.writes, log |-> out.log])

DoUpdate(version, changelogContent, fault) ==
    RecordUpdate(version, changelogContent, fault,
                 updateChangelogFile(file, fault, config.changelogPath, version,
                                     changelogContent))

CallUpdateChangelogFile ==
    /\ ncalls < MaxCalls
    /\ \E version \in ChangelogTags, input \in SectionInputs, now \in Clocks,
          fault \in {"none", "write"} :
            DoUpdate(version, SectionFor(version, input, now), fault)
    /\ ncalls' = ncalls + 1
    /\ UNCHANGED <<config, git, pc, core, github, local, fswrites, backend>>

NextChangelog == CallUpdateChangelogFile

SpecChangelog == InitChangelog /\ [][NextChangelog]_vars

(***************************************************************************)
(* Claims about updateChangelogFile                                         *)
(***************************************************************************)
HeadingLine(tag) == SectionMark \o tag

\* The 1-based numbers of the lines that are the heading of tag.
HeadingsIn(lines, tag) == {i \in 1..Len(lines) : lines[i] = HeadingLine(tag)}

HeadingLines(content, tag) == HeadingsIn(Split(content, {NL}), tag)

\* The file holds the section of tag: a line that is exactly its heading.
HasSection(f, tag) == f.exists /\ HeadingLines(f.content, tag) # {}

SaysAlreadyExists(log) ==
    \E i \in 1..Len(log) :
        log[i].level = "info" /\ MessageHas(log[i].message, " already exists in ")

\* What a call on a file holding the section of its tag has to be.
IsNoOp(call, after) ==
    /\ call.writes = 0
    /\ after = call.before
    /\ ~call.thrown
    /\ call.value = FALSE
    /\ SaysAlreadyExists(call.log)

SkipIsNoOp(call) == HasSection(call.before, call.version) => IsNoOp(call, file')

\* A second call for the tag of a call that returned changes nothing.
RepeatIsNoOp(first, second) ==
    (~first.thrown /\ first.version = second.version) => file' = file

C4_Step ==
    /\ ret' # None => SkipIsNoOp(ret'[1])
    /\ (ret # None /\ ret' # None) => RepeatIsNoOp(ret[1], ret'[1])

\* C4: a call of updateChangelogFile for a tag whose section the file
\* already holds writes nothing, leaves the file as it was, returns false,
\* logs that the version already exists and does not throw; and a call for
\* the same tag as the call before it, which returned, leaves the file as
\* that call left it.
C4_PersistTwiceIsNoOp == [][C4_Step]_vars

\* A call for v2.0.0, which only an earlier call can have recorded, was
\* skipped.
C4_Witness ==
    /\ ret # None
    /\ ncalls >= 2
    /\ ret[1].version = <<"v", "2", ".", "0", ".", "0">>
    /\ HasSection(ret[1].before, ret[1].version)
    /\ ret[1].value = FALSE
    /\ file = ret[1].before

\* C5: whatever calls were made, every tag has at most one heading line in
\* the changelog file.
C5_OneHeadingPerTag ==
    file.exists =>
        \A tag \in ChangelogTags : Cardinality(HeadingLines(file.content, tag)) <= 1

\* After three calls the file holds the sections of two tags, the last
\* call having asked again for one of them.
C5_Witness ==
    /\ ret # None
    /\ ncalls = MaxCalls
    /\ ~ret[1].thrown
    /\ ret[1].value = FALSE
    /\ HasSection(file, ret[1].version)
    /\ HasSection(file, <<"v", "2", ".", "0", ".", "0">>)
    /\ HasSection(file, <<"v", "1", ".", "0", ".", "0">>)

Skipped(call) == ~call.thrown /\ call.value = FALSE /\ call.writes = 0

Written(call) == ~call.thrown /\ call.value = TRUE /\ call.writes = 1

\* C6: with a file system that does not fail, a call is skipped exactly
\* when the file holds the heading of that very tag, and for any other tag
\* the section is written and the call returns true.
C6_SkipsOnlyOwnHeading ==
    (ret # None /\ ret[1].fault = "none") =>
        /\ Skipped(ret[1]) <=> HasSection(ret[1].before, ret[1].version)
        /\ ~HasSection(ret[1].before, ret[1].version) =>
              (Written(ret[1]) /\ HasSection(file, ret[1].version))

\* The call for v1.0.0 on a file that records v1.0.0-rc1 only was skipped.
C6_Witness ==
    /\ ret # None
    /\ ret[1].fault = "none"
    /\ ret[1].version = <<"v", "1", ".", "0", ".", "0">>
    /\ ~HasSection(ret[1].before, ret[1].version)
    /\ HasSection(ret[1].before, <<"v", "1", ".", "0", ".", "0", "-", "r", "c", "1">>)
    /\ Skipped(ret[1])
    /\ file = ret[1].before

\* The lines updateChangelogFile started from: those of the file, or of the
\* text it synthesizes for a missing file.
LinesBefore(call) ==
    Split(IF call.before.exists THEN call.before.content ELSE NewFileText, {NL})

IsSectionHeading(line) == StartsWith(line, SectionMark)

\* The number of lines the written file has more than the old one.
Shift(old, new) == Len(new) - Len(old)

\* Every old line from number from on stands Shift lines further down.
TailKept(old, new, from) ==
    \A j \in from..Len(old) : new[j + Shift(old, new)] = old[j]

\* The heading, at line h, is the first non-empty line below the first
\* title, line t of the old file; the lines above it are untouched and
\* the old lines from h on follow the new section.
PlacedUnderTitle(old, new, t, h) ==
    /\ h > t
    /\ Shift(old, new) > 0
    /\ \A j \in 1..(h - 1) : j <= Len(old) /\ new[j] = old[j]
    /\ \A j \in (t + 1)..(h - 1) : Trim(new[j]) = <<>>
    /\ TailKept(old, new, h)

\* Without a title the heading is line 2, below one empty line, and the
\* whole old file follows the new section.
PlacedAtTop(old, new, h) ==
    /\ h = 2
    /\ new[1] = <<>>
    /\ Shift(old, new) > 0
    /\ TailKept(old, new, 1)

Placed(old, new, t, h) ==
    IF t = 0 THEN PlacedAtTop(old, new, h) ELSE PlacedUnderTitle(old, new, t, h)

StartsNewFile(call) ==
    ~call.before.exists =>
        file.content = NewFileText \o <<NL>> \o call.changelogContent

SplicedUnderTitle(call, old, new) ==
    /\ StartsNewFile(call)
    /\ Cardinality(HeadingsIn(new, call.version)) = 1
    /\ \A h \in HeadingsIn(new, call.version) : Placed(old, new, FirstTitleLine(old), h)

NewestFirst(new, t, h) ==
    /\ t > 0
    /\ h > t
    /\ \A j \in (t + 1)..(h - 1) : Trim(new[j]) = <<>>
    /\ \A j \in 1..Len(new) : (IsSectionHeading(new[j]) /\ j # h) => h < j

SplicedNewestFirst(call, new) ==
    /\ StartsNewFile(call)
    /\ \A h \in HeadingsIn(new, call.version) : NewestFirst(new, FirstTitleLine(new), h)

CommitPool ==
    { [hash |-> <<"1", "1", "1", "1", "1", "1", "1", "a", "a", "a">>,
       subject |-> <<"[", "E", "M", "B", "R", "-", "1", "]", " ", "F", "e", "a", "t", "u", "r", "e", ":", " ", "A">>],
      [hash |-> <<"2", "2", "2", "2", "2", "2", "2", "b", "b", "b">>,
       subject |-> <<"U", "p", "d", "a", "t", "e", " ", "d", "e", "p", "s">>],
      [hash |-> <<"3", "3", "3", "3", "3", "3", "3", "c", "c", "c">>,
       subject |-> <<"[", "E", "M", "B", "R", "-", "2", "]", " ", "t", "o", "S", "t", "r", "i", "n", "g", ":", " ", "x">>] }

CommitLists == UNION { [1..k -> CommitPool] : k \in 0..MaxCommits }

\* The tags as git tag prints them.
RunTagLists ==
    { <<>>,
      << <<"v", "1", ".", "0", ".", "0">> >>,
      << <<"v", "1", ".", "0", ".", "0", "-", "r", "c", "1">>,
         <<"v", "1", ".", "0", ".", "0">> >> }

\* Repositories whose git commands work, and empty histories on which one
\* of them fails.
Repositories ==
    [tags : RunTagLists, initialCommit : {InitialCommitHash}, failing : {{}},
     commits : CommitLists]
    \cup [tags : RunTagLists, initialCommit : {InitialCommitHash},
          failing : {{"tag"}, {"revlist"}, {"log"}}, commits : {<<>>}]

RunConfigs ==
    [currentTag : {Some(Latest), Some(AbsentTag)},
     baseTag : {None, Some(<<"v", "1", ".", "0", ".", "0", "-", "r", "c", "1">>)},
     includeUnmatched : BOOLEAN,
     updateChangelog : BOOLEAN,
     createRelease : BOOLEAN,
     changelogPath : {ChangelogPath},
     releaseDraft : BOOLEAN,
     releasePrerelease : BOOLEAN,
     additionalTypes : {<<>>}]

RunFiles == { NoFile, [exists |-> TRUE, content |-> NewFileText \o RecordedSection] }

OldRelease ==
    [id |-> 7, tag_name |-> <<"v", "1", ".", "0", ".", "0">>,
     name |-> <<"o", "l", "d">>, body |-> <<"o", "l", "d">>, draft |-> TRUE,
     prerelease |-> TRUE,
     html_url |-> <<"h", "t", "t", "p", "s", ":", "/", "/", "g", "i", "t", "h", "u", "b", ".", "c", "o", "m", "/", "o", "/", "r", "/", "r", "e", "l", "e", "a", "s", "e", "s", "/", "7">>]

Init ==
    /\ config \in RunConfigs
    /\ git \in Repositories
    /\ file \in RunFiles
    /\ github \in { NoReleases, [releases |-> <<OldRelease>>, calls |-> <<>>] }
    /\ pc = "start"
    /\ ncalls = 0
    /\ ret = None
    /\ core = NoCore
    /\ local = NoLocal
    /\ fswrites = 0
    /\ backend = NoRequests

Next ==
    \/ RunResolveTags
    \/ RunClassify
    \/ RunRender
    \/ RunSetOutputs
    \/ RunPersist
    \/ RunFinish
    \/ RunLookup
    \/ RunPublish

Spec == Init /\ [][Next]_vars

(***************************************************************************)
(* Claims about run and createOrUpdateRelease (checked under Spec)          *)
(***************************************************************************)
\* The commits of the range the resolved tags r name were retrieved.
Retrieved(r) ==
    ~r.thrown /\ ~getCommitsBetween(git, r.value.baseTag, r.value.currentTag).thrown

\* In this repository and configuration tag resolution and commit retrieval
\* both succeed.
RetrievalSucceeds == Retrieved(resolveTags(git, config.currentTag, config.baseTag))

\* The error run meets in tag resolution or commit retrieval.
RetrievalError(r) ==
    IF r.thrown THEN r.message
    ELSE getCommitsBetween(git, r.value.baseTag, r.value.currentTag).message

OutputsNamed(name) == {i \in 1..Len(core.outputs) : core.outputs[i].name = name}

HasOutput(name, value) ==
    \E i \in OutputsNamed(name) : core.outputs[i].value = value

ComputedOutputsSet ==
    /\ HasOutput("changelog", local.changelog[1])
    /\ HasOutput("current_tag", local.currentTag[1])
    /\ HasOutput("base_tag", local.baseTag[1])

PublishSucceeded == pc = "done" /\ ret # None /\ ~ret[1].thrown

\* C1: when tag resolution and commit retrieval succeed, run does not
\* reject and never calls setFailed; once set, the changelog, current_tag
\* and base_tag outputs stay set; a run that is to publish has attempted the
\* publish when it ends, whatever happened to the file; and release_url is
\* set only if the publish succeeded.
C1_LateFailuresAreWarnings ==
    RetrievalSucceeds =>
        /\ pc # "rejected"
        /\ core.failed = <<>>
        /\ pc \in {"outputs", "persisted", "lookedUp", "done"} => ComputedOutputsSet
        /\ (pc = "done" /\ config.createRelease) => Len(github.calls) = 2
        /\ OutputsNamed("release_url") # {} =>
              (PublishSucceeded /\ HasOutput("release_url", ret[1].value))

\* A run whose tags were resolved and whose commits were retrieved has been
\* rejected, with setFailed called and no output set.
C1_Witness ==
    /\ RetrievalSucceeds
    /\ pc = "rejected"
    /\ Len(core.failed) = 1
    /\ core.outputs = <<>>
    /\ local.currentTag # None
    /\ local.groupedCommits = None

NothingDone ==
    /\ core.outputs = <<>>
    /\ fswrites = 0
    /\ backend = NoRequests
    /\ file \in RunFiles
    /\ github.calls = <<>>
    /\ github.releases \in {<<>>, <<OldRelease>>}

FailedOnceWith(error) ==
    /\ core.failed = << <<Lit("Action failed: ")>> \o error >>
    /\ local.error = Some(error)

\* Where a run is whose tag resolution or commit retrieval throws error.
Aborting(error) ==
    /\ pc \in {"start", "resolved", "rejected"}
    /\ NothingDone
    /\ IF pc = "rejected" THEN FailedOnceWith(error) ELSE core.failed = <<>>

AbortsWith(r) == (r.thrown \/ ~Retrieved(r)) => Aborting(RetrievalError(r))

RejectsOn(r) == (r.thrown \/ (~Retrieved(r) /\ pc = "resolved")) => pc' = "rejected"

\* C2: when tag resolution or commit retrieval throws, run never has an
\* output set, the file written or an API call made; the step that meets
\* the error ends the run as rejected with that error, setFailed having
\* been called once, with that error.
C2_RetrievalFailureAborts ==
    /\ [](AbortsWith(resolveTags(git, config.currentTag, config.baseTag)))
    /\ [][RejectsOn(resolveTags(git, config.currentTag, config.baseTag))]_vars

\* A run was rejected because git log failed after the tags were resolved.
C2_Witness ==
    /\ pc = "rejected"
    /\ git.failing = {"log"}
    /\ local.baseTag # None
    /\ Len(core.failed) = 1
    /\ NothingDone

\* The positions a run may take after position p.
Successors(p) ==
    CASE p = "start" -> {"resolved", "rejected"}
      [] p = "resolved" -> {"classified", "rejected"}
      [] p = "classified" -> {"rendered", "rejected"}
      [] p = "rendered" -> {"outputs"}
      [] p = "outputs" -> {"persisted"}
      [] p = "persisted" -> IF config.createRelease THEN {"lookedUp"} ELSE {"done"}
      [] p = "lookedUp" -> {"done"}
      [] OTHER -> {}

PublishCalls ==
    {i \in 1..Len(github.calls) :
        github.calls[i].method \in {"updateRelease", "createRelease"}}

\* Each effect belongs to one step.
EffectsInOrder ==
    /\ core'.outputs # core.outputs => pc \in {"rendered", "lookedUp"}
    /\ (fswrites' # fswrites \/ file' # file) =>
          (pc = "outputs" /\ config.updateChangelog /\ fswrites' = fswrites + 1)
    /\ github' # github =>
          /\ config.createRelease
          /\ pc \in {"persisted", "lookedUp"}
          /\ Len(github'.calls) = Len(github.calls) + 1
    /\ pc' = "outputs" => (ComputedOutputsSet' /\ fswrites' = 0 /\ github'.calls = <<>>)

C3_Step ==
    /\ pc' \in Successors(pc)
    /\ EffectsInOrder
    /\ fswrites' <= 1
    /\ Cardinality(PublishCalls') <= 1

\* C3: every step of run moves from one position to the next of resolve
\* tags, classify, render, set outputs, persist, look up, publish (or to
\* the rejection of the run), never back; the file is written only by the
\* persist step of a run that is to update the changelog, the API is called
\* only by the two publish steps of a run that is to create a release, the
\* three outputs are set before either; and a run writes the file at most
\* once and issues at most one update or create call.
C3_StepsInFixedOrder == [][C3_Step]_vars

\* A run ended having written the file and published the release.
C3_Witness ==
    /\ pc = "done"
    /\ fswrites = 1
    /\ Len(github.calls) = 2
    /\ Cardinality(PublishCalls) = 1
    /\ OutputsNamed("release_url") # {}

IsLookup(call, tag) == call.method = "getReleaseByTag" /\ call.params.tag = tag

IsUpdateOf(call, release) ==
    call.method = "updateRelease" /\ call.params.release_id = release.data.id

IsCreateFor(call, tag) ==
    /\ call.method = "createRelease"
    /\ call.params.tag_name = tag
    /\ call.params.name = tag

ReturnsAnswerOf(call) ==
    /\ ret # None
    /\ ret[1].thrown = call.thrown
    /\ ~call.thrown => ret[1].value = call.response.data.html_url

\* The calls of a createOrUpdateRelease that has ended.
LookupThenOne(calls, tag) ==
    /\ Len(calls) = 2
    /\ IsLookup(calls[1], tag)
    /\ IF calls[1].thrown THEN IsCreateFor(calls[2], tag)
       ELSE IsUpdateOf(calls[2], calls[1].response)
    /\ ReturnsAnswerOf(calls[2])

\* C8: createOrUpdateRelease calls getReleaseByTag first; when it has ended
\* it has made exactly one more call, updateRelease with the id of the found
\* release if the lookup succeeded and createRelease with tag_name and name
\* the tag if the lookup failed, and it has returned the html_url of that
\* call's response, or thrown if that call failed.
C8_UpdateIfFoundElseCreate ==
    /\ pc = "lookedUp" =>
          (Len(github.calls) = 1 /\ IsLookup(github.calls[1], local.currentTag[1]))
    /\ (pc = "done" /\ config.createRelease) =>
          LookupThenOne(github.calls, local.currentTag[1])

\* The lookup found the release, the update failed and no create followed.
C8_Witness ==
    /\ pc = "done"
    /\ Len(github.calls) = 2
    /\ ~github.calls[1].thrown
    /\ github.calls[2].method = "updateRelease"
    /\ github.calls[2].thrown
    /\ ret[1].thrown

\* The last entries core has logged are the given ones.
EndsWithLog(c, entries) ==
    /\ Len(c.log) >= Len(entries)
    /\ SubSeq(c.log, Len(c.log) - Len(entries) + 1, Len(c.log)) = entries

LastCall(gh) == gh.calls[Len(gh.calls)]

ApiErrors == {NotFound, ServerError, ValidationFailed}

ErrorEntries(c) == {i \in 1..Len(c.log) : c.log[i].level = "error"}

\* The step of run that called updateChangelogFile, whose fs.writeFileSync
\* was attempted and left the file as it was.
FailedWriteStep == pc = "outputs" /\ fswrites' = fswrites + 1 /\ file' = file

\* The failure was logged through core.error and reached the catch of run
\* with the message of the file system.
WriteFailureRethrown ==
    EndsWithLog(core', <<ErrorLog(<<Lit("Failed to update "), Val(config.changelogPath),
                                    Lit(": ")>> \o FsError),
                         Warning(<<Lit("Failed to update CHANGELOG.md: ")>> \o FsError)>>)

ReleaseFailure(message) == <<Lit("Failed to create/update release: ")>> \o message

\* The failure of the second call was logged through core.error and reached
\* the catch of run with the message of the API; no URL was returned.
PublishFailureRethrown ==
    /\ ret' # None
    /\ ret'[1].thrown
    /\ ret'[1].message \in ApiErrors
    /\ EndsWithLog(core', <<ErrorLog(ReleaseFailure(ret'[1].message)),
                            Warning(ReleaseFailure(ret'[1].message)),
                            Info(CompletedInfo)>>)
    /\ core'.outputs = core.outputs

\* The failure of the lookup was logged as an info only and left
\* createOrUpdateRelease on its way to createRelease.
LookupFailureAbsorbed ==
    /\ ret' = ret
    /\ ErrorEntries(core') = ErrorEntries(core)
    /\ EndsWithLog(core', <<Info(<<Lit("No existing release found for "),
                                   Val(local.currentTag[1]),
                                   Lit(", will create new one")>>)>>)
    /\ local'.found = Some([isUpdate |-> FALSE, release |-> None])

C22_Step ==
    /\ FailedWriteStep => WriteFailureRethrown
    /\ (pc = "lookedUp" /\ pc' = "done" /\ LastCall(github').thrown) =>
          PublishFailureRethrown
    /\ (pc = "persisted" /\ pc' = "lookedUp" /\ LastCall(github').thrown) =>
          LookupFailureAbsorbed

\* C22: a failed file write of updateChangelogFile, and a failed
\* updateRelease or createRelease call of createOrUpdateRelease, is logged
\* through core.error and thrown on to the caller with its message
\* unchanged, no normal value being returned; the failure of the lookup by
\* tag alone is absorbed.
C22_FailuresRethrown == [][C22_Step]_vars

\* A run whose file write failed, whose lookup failed and was absorbed, and
\* whose createRelease failed and was thrown on.
C22_Witness ==
    /\ pc = "done"
    /\ fswrites = 1
    /\ Len(github.calls) = 2
    /\ github.calls[1].thrown
    /\ github.calls[2].method = "createRelease"
    /\ github.calls[2].thrown
    /\ ret[1].thrown
    /\ Cardinality(ErrorEntries(core)) = 2

(***************************************************************************)
(* Direct calls of getCommitsBetween                                        *)
(***************************************************************************)
\* Subjects of commits: without a bar, with one, with two, ending with one,
\* and the empty subject.
LogSubjects ==
    { <<"U", "p", "d", "a", "t", "e", " ", "d", "e", "p", "s">>,
      <<"[", "E", "M", "B", "R", "-", "1", "]", " ", "f", "i", "x", ":", " ", "A", "|", "B">>,
      <<"a", "|", "b", "|", "c">>,
      <<"x", "|">>,
      <<>> }

LogHashes == << <<"1", "1", "1", "1", "1", "1", "1", "a", "a", "a">>,
                <<"2", "2", "2", "2", "2", "2", "2", "b", "b", "b">> >>

\* Histories of a range, newest first.
LogCommitLists ==
    UNION { { [i \in 1..k |-> [hash |-> LogHashes[i], subject |-> subjects[i]]] :
                subjects \in [1..k -> LogSubjects] } : k \in 0..MaxCommits }

LogRepositories ==
    [tags : { << <<"v", "1", ".", "0", ".", "0">>, Latest >> },
     initialCommit : {InitialCommitHash}, failing : {{}, {"log"}},
     commits : LogCommitLists]

InitLog ==
    /\ config \in [baseRef : {InitialCommitHash, <<"v", "1", ".", "0", ".", "0">>, AbsentTag},
                   currentRef : {Latest}]
    /\ git \in LogRepositories
    /\ file = NoFile
    /\ pc = "call"
    /\ ncalls = 0
    /\ ret = None
    /\ core = NoCore
    /\ github = NoReleases
    /\ local = NoLocal
    /\ fswrites = 0
    /\ backend = NoRequests

CallGetCommitsBetween ==
    /\ pc = "call"
    /\ ret' = Some(getCommitsBetween(git, config.baseRef, config.currentRef))
    /\ pc' = "returned"
    /\ ncalls' = ncalls + 1
    /\ UNCHANGED <<config, git, file, core, github, local, fswrites, backend>>

NextLog == CallGetCommitsBetween

SpecLog == InitLog /\ [][NextLog]_vars

(***************************************************************************)
(* Claims about getCommitsBetween (checked under SpecLog)                   *)
(***************************************************************************)
LogReturned == pc = "returned" /\ ret # None /\ ~ret[1].thrown

HasBar(subject) == \E i \in 1..Len(subject) : subject[i] = "|"

\* The commit returned for the line of commit c.
IsCommitOf(commit, c) ==
    commit.hash = Some(c.hash) /\ commit.message = Some(c.subject)

\* C23: for every line 'hash|subject' of the history log, getCommitsBetween
\* returns a commit whose hash is the hash and whose message is the full
\* subject, whatever characters the subject holds.
C23_MessageIsFullSubject ==
    LogReturned =>
        /\ Len(ret[1].value) = Len(git.commits)
        /\ \A i \in 1..Len(git.commits) : IsCommitOf(ret[1].value[i], git.commits[i])

\* A history with a subject that holds a bar was retrieved.
C23_Witness ==
    /\ LogReturned
    /\ Len(ret[1].value) = MaxCommits
    /\ \E i \in 1..Len(git.commits) : HasBar(git.commits[i].subject)

(***************************************************************************)
(* Direct calls of compareSemver                                            *)
(***************************************************************************)
\* The versions compared: their numbers, their prerelease suffix (empty for
\* none) and whether the tag is written with the v prefix.
Versions ==
    [major : {1, 2, 10}, minor : {0, 2}, patch : {0, 10},
     suffix : { <<>>, <<"r", "c", "1">>, <<"r", "c", "2">>, <<"r", "c", "1", "0">>,
                <<"R", "C", "1">>, <<"b", "e", "t", "a">> },
     prefixed : BOOLEAN]

\* The tag of a version: vMAJOR.MINOR.PATCH[-PRERELEASE].
TagText(version) ==
    (IF version.prefixed THEN <<"v">> ELSE <<>>)
    \o NumToStr(version.major) \o <<".">> \o NumToStr(version.minor) \o <<".">>
    \o NumToStr(version.patch)
    \o (IF version.suffix = <<>> THEN <<>> ELSE <<"-">> \o version.suffix)

InitCompare ==
    /\ config \in [a : Versions, b : Versions]
    /\ git = [tags |-> <<>>, initialCommit |-> InitialCommitHash, failing |-> {}]
    /\ file = NoFile
    /\ pc = "call"
    /\ ncalls = 0
    /\ ret = None
    /\ NoRun

CallCompareSemver ==
    /\ pc = "call"
    /\ ret' = Some([a |-> TagText(config.a), b |-> TagText(config.b),
                    value |-> compareSemver(TagText(config.a), TagText(config.b))])
    /\ pc' = "returned"
    /\ ncalls' = ncalls + 1
    /\ UNCHANGED <<config, git, file, core, github, local, fswrites, backend>>

NextCompare == CallCompareSemver

SpecCompare == InitCompare /\ [][NextCompare]_vars

(***************************************************************************)
(* Claims about compareSemver (checked under SpecCompare)                   *)
(***************************************************************************)
Sign(n) == IF n > 0 THEN 1 ELSE IF n < 0 THEN -1 ELSE 0

\* The characters of the model in the order of their UTF-16 code units.
CodeUnits ==
    <<" ", "#", "(", ")", "*", ",", "-", ".",
      "0", "1", "2", "3", "4", "5", "6", "7", "8", "9", ":",
      "A", "B", "C", "D", "E", "F", "G", "H", "I", "J", "K", "L", "M",
      "N", "O", "P", "Q", "R", "S", "T", "U", "V", "W", "X", "Y", "Z",
      "[", "]", "_",
      "a", "b", "c", "d", "e", "f", "g", "h", "i", "j", "k", "l", "m",
      "n", "o", "p", "q", "r", "s", "t", "u", "v", "w", "x", "y", "z",
      "{", "|", "}">>

CodeUnit(c) == CHOOSE i \in 1..Len(CodeUnits) : CodeUnits[i] = c

\* The order of two strings as plain strings, code unit by code unit.
PlainCompare(a, b) ==
    LexCompare([i \in 1..Len(a) |-> CodeUnit(a[i])], [i \in 1..Len(b) |-> CodeUnit(b[i])])

\* The sign the comparison of two versions is to have.
SemverSign(a, b) ==
    IF a.major # b.major THEN Sign(a.major - b.major)
    ELSE IF a.minor # b.minor THEN Sign(a.minor - b.minor)
    ELSE IF a.patch # b.patch THEN Sign(a.patch - b.patch)
    ELSE IF a.suffix = <<>> /\ b.suffix = <<>> THEN 0
    ELSE IF a.suffix = <<>> THEN 1
    ELSE IF b.suffix = <<>> THEN -1
    ELSE PlainCompare(a.suffix, b.suffix)

\* C12: compareSemver(a, b) has the sign of the difference of the major
\* numbers, else of the minor, else of the patch numbers; with equal numbers
\* it is 0 without suffixes, positive if only b has a suffix, negative if
\* only a has one, and else has the sign of the plain string order of the
\* suffixes; and compareSemver(b, a) has the opposite sign.
C12_SignOfSemverOrder ==
    pc = "returned" =>
        /\ Sign(ret[1].value) = SemverSign(config.a, config.b)
        /\ Sign(compareSemver(ret[1].b, ret[1].a)) = 0 - Sign(ret[1].value)

\* v1.0.0-RC1 compared greater than v1.0.0-rc1, which follows it as a plain
\* string.
C12_Witness ==
    /\ pc = "returned"
    /\ ret[1].a = <<"v", "1", ".", "0", ".", "0", "-", "R", "C", "1">>
    /\ ret[1].b = <<"v", "1", ".", "0", ".", "0", "-", "r", "c", "1">>
    /\ PlainCompare(config.a.suffix, config.b.suffix) < 0
    /\ ret[1].value > 0


(***************************************************************************)
(* Direct calls of parseCommitMessage                                       *)
(***************************************************************************)
\* The pieces a commit message is put together from: an opening bracket, a
\* ticket, a closing bracket, a gap, a type label, a colon and the text
\* after it, each of them present, absent or malformed.
MessagePieces ==
    [open : { <<"[">>, <<>> },
     ticket : { <<"E", "M", "B", "R", "-", "1">>, <<"e", "m", "b", "r", "-", "1", "2">>,
                <<"E", "m", "b", "r", "-", "7">>, <<"E", "M", "B", "R", "-">>,
                <<"E", "M", "B", "R", "-", "1", "a">>, <<"J", "I", "R", "A", "-", "1">>,
                <<"E", "M", "B", "R", "1">> },
     close : { <<"]">>, <<>> },
     gap : { <<>>, <<" ">>, <<NL>>, <<" ", "\t">>, <<"x">> },
     type : { <<>>, <<"F", "e", "a", "t", "u", "r", "e">>, <<" ">>, <<"f", "i", "x", " ">>,
              <<"B", "u", "g", " ", "F", "i", "x">>, <<"a", NL, "b">> },
     colon : { <<":">>, <<>> },
     after : { <<>>, <<" ">>, <<"x">>,
               <<" ", "A", "d", "d", " ", " ", "l", "o", "g", "i", "n", " ">>,
               <<NL, "A">>, <<"A", NL, "B">>, <<" ", "a", ":", "b">>, <<NL>>, <<" ", NL>> }]

MessageOf(pieces) ==
    pieces.open \o pieces.ticket \o pieces.close \o pieces.gap \o pieces.type
    \o pieces.colon \o pieces.after

InitParse ==
    /\ config \in {[message |-> MessageOf(pieces)] : pieces \in MessagePieces}
    /\ git = [tags |-> <<>>, initialCommit |-> InitialCommitHash, failing |-> {}]
    /\ file = NoFile
    /\ pc = "call"
    /\ ncalls = 0
    /\ ret = None
    /\ NoRun

CallParseCommitMessage ==
    /\ pc = "call"
    /\ ret' = Some([message |-> config.message, value |-> parseCommitMessage(config.message)])
    /\ pc' = "returned"
    /\ ncalls' = ncalls + 1
    /\ UNCHANGED <<config, git, file, core, github, local, fswrites, backend>>

NextParse == CallParseCommitMessage

SpecParse == InitParse /\ [][NextParse]_vars

(***************************************************************************)
(* Claims about parseCommitMessage (checked under SpecParse)                *)
(***************************************************************************)
\* message[from..to] holds only characters of the set.
RunOf(message, from, to, set) == \A k \in from..to : message[k] \in set

\* The message begins with a bracket and EMBR- in any letter case.
OpensTicket(message) ==
    /\ Len(message) > Len(TicketPrefix)
    /\ message[1] = "["
    /\ ToUpperCase(SubSeq(message, 2, Len(TicketPrefix) + 1)) = TicketPrefix

\* The ways of reading a message as '[' EMBR-<digits> ']' whitespace type
\* ':' description: the positions of the closing bracket, of the first
\* character of the type, of the colon and of the first character of the
\* description.  The type is non-empty and holds no colon; the description
\* is non-empty, may follow white space and runs to the end of the message
\* on one line.
ShapeReadings(message) ==
    IF ~OpensTicket(message) THEN {}
    ELSE UNION { UNION { UNION { { [close |-> i, type |-> p, colon |-> j, description |-> q] :
              q \in {q \in (j + 1)..Len(message) :
                        /\ RunOf(message, j + 1, q - 1, WhiteSpace)
                        /\ \A k \in q..Len(message) : message[k] \notin LineTerminators} } :
              j \in {j \in (p + 1)..Len(message) :
                        /\ message[j] = ":"
                        /\ \A k \in p..(j - 1) : message[k] # ":"} } :
              p \in {p \in (i + 2)..Len(message) : RunOf(message, i + 1, p - 1, WhiteSpace)} } :
              i \in {i \in (Len(TicketPrefix) + 3)..Len(message) :
                        /\ message[i] = "]"
                        /\ \A k \in (Len(TicketPrefix) + 2)..(i - 1) : IsDigit(message[k])} }

\* What a reading of the message yields: the ticket upper-cased, the type
\* and the description trimmed.
ParsedAs(message, reading) ==
    [ticket |-> ToUpperCase(SubSeq(message, 2, reading.close - 1)),
     type |-> Trim(SubSeq(message, reading.type, reading.colon - 1)),
     description |-> Trim(SubSeq(message, reading.description, Len(message)))]

ParsesAsShaped(message, parsed) ==
    /\ parsed # None <=> ShapeReadings(message) # {}
    /\ \A reading \in ShapeReadings(message) : parsed = Some(ParsedAs(message, reading))

\* C13: parseCommitMessage returns a result exactly for the messages of the
\* shape '[' EMBR-<digits> ']' whitespace <type without colon> ':'
\* <non-empty description>, the prefix in any letter case, and the result is
\* the ticket upper-cased, the type trimmed and the description trimmed;
\* every other message yields null.
C13_ParsesExactlyTheShape ==
    (pc = "returned" /\ ret # None) => ParsesAsShaped(ret[1].message, ret[1].value)

\* A lower-case ticket and a description between white space are parsed.
C13_Witness ==
    /\ pc = "returned"
    /\ ret # None
    /\ ret[1].value # None
    /\ ret[1].value[1].ticket = <<"E", "M", "B", "R", "-", "1", "2">>
    /\ ret[1].value[1].type = <<"f", "i", "x">>
    /\ ret[1].value[1].description = <<"A", "d", "d", " ", " ", "l", "o", "g", "i", "n">>
    /\ ~StartsWith(ret[1].message, <<"[", "E">>)

(***************************************************************************)
(* Direct calls of groupCommits                                             *)
(***************************************************************************)
MaxGrouped == 3

\* Commit subjects: known types in either letter case, unknown types that
\* differ in letter case only, types named like members of Object.prototype,
\* merge commits and subjects of no shape.
GroupSubjects ==
    { <<"[", "E", "M", "B", "R", "-", "1", "]", " ", "F", "e", "a", "t", "u", "r", "e", ":", " ", "A">>,
      <<"[", "e", "m", "b", "r", "-", "2", "]", " ", "F", "I", "X", ":", " ", "B">>,
      <<"[", "E", "M", "B", "R", "-", "3", "]", " ", "P", "e", "r", "f", ":", " ", "C">>,
      <<"[", "E", "M", "B", "R", "-", "4", "]", " ", "p", "e", "r", "f", ":", " ", "D">>,
      <<"M", "e", "r", "g", "e", " ", "p", "u", "l", "l", " ", "r", "e", "q", "u", "e", "s", "t", " ", "#", "1">>,
      <<"U", "p", "d", "a", "t", "e", " ", "d", "e", "p", "s">>,
      <<"M", "e", "r", "g", "e", "d", " ", "x">>,
      <<"[", "E", "M", "B", "R", "-", "5", "]", " ", "t", "o", "S", "t", "r", "i", "n", "g", ":", " ", "x">>,
      <<"[", "E", "M", "B", "R", "-", "6", "]", " ", "C", "o", "n", "s", "t", "r", "u", "c", "t", "o", "r", ":", " ", "y">> }

\* The messages of the commits: a subject, or undefined for a log line
\* without the separator.
GroupMessages == {Some(subject) : subject \in GroupSubjects} \cup {None}

\* The hash of the i-th commit of a list: ten characters, the first seven
\* of which tell the commits of a list apart.
HashAt(i) == [k \in 1..7 |-> Digits[i + 1]] \o <<"f", "f", "f">>

CommitsOf(messages) ==
    [i \in 1..Len(messages) |-> [hash |-> Some(HashAt(i)), message |-> messages[i]]]

\* The additionalTypes of the caller: none, a new key, a key of the
\* defaults with another group name, with the empty string, and with the
\* name of a member of Object.prototype.
AdditionalTypeMaps ==
    { <<>>,
      <<[key |-> <<"p", "e", "r", "f">>,
         value |-> <<"P", "e", "r", "f", "o", "r", "m", "a", "n", "c", "e">>]>>,
      <<[key |-> <<"f", "e", "a", "t", "u", "r", "e">>,
         value |-> <<"H", "i", "g", "h", "l", "i", "g", "h", "t", "s">>]>>,
      <<[key |-> <<"f", "e", "a", "t", "u", "r", "e">>, value |-> <<>>]>>,
      <<[key |-> <<"f", "i", "x">>,
         value |-> <<"t", "o", "S", "t", "r", "i", "n", "g">>]>> }

InitGroup ==
    /\ config \in [commits : {CommitsOf(messages) :
                                 messages \in UNION {[1..k -> GroupMessages] : k \in 0..MaxGrouped}},
                   additionalTypes : AdditionalTypeMaps]
    /\ git = [tags |-> <<>>, initialCommit |-> InitialCommitHash, failing |-> {}]
    /\ file = NoFile
    /\ pc = "call"
    /\ ncalls = 0
    /\ ret = None
    /\ NoRun

CallGroupCommits ==
    /\ pc = "call"
    /\ ret' = Some([commits |-> config.commits, additionalTypes |-> config.additionalTypes,
                    value |-> groupCommits(config.commits, config.additionalTypes)])
    /\ pc' = "returned"
    /\ ncalls' = ncalls + 1
    /\ UNCHANGED <<config, git, file, core, github, local, fswrites, backend>>

NextGroup == CallGroupCommits

SpecGroup == InitGroup /\ [][NextGroup]_vars

(***************************************************************************)
(* Claims about groupCommits (checked under SpecGroup)                      *)
(***************************************************************************)
GroupReturned == pc = "returned" /\ ret # None /\ ~ret[1].value.thrown

IsMerge(commit) == commit.message # None /\ StartsWith(commit.message[1], MergePrefix)

\* The commits of a list that are no merge commits, in their order.
RECURSIVE NonMerges(_)
NonMerges(commits) ==
    IF commits = <<>> THEN <<>>
    ELSE IF IsMerge(Head(commits)) THEN NonMerges(Tail(commits))
    ELSE <<Head(commits)>> \o NonMerges(Tail(commits))

\* The hashes recorded in a result, in groups and among the unmatched.
ItemHashes(grouped) ==
    UNION {{grouped.groups[g].items[i].hash : i \in 1..Len(grouped.groups[g].items)} :
             g \in 1..Len(grouped.groups)}

UnmatchedHashes(grouped) == {grouped.unmatched[i].hash : i \in 1..Len(grouped.unmatched)}

ShortHash(commit) == Take(commit.hash[1], 7)

MergeFree(commits, grouped) ==
    \A i \in 1..Len(commits) :
        IsMerge(commits[i]) =>
            ShortHash(commits[i]) \notin ItemHashes(grouped) \cup UnmatchedHashes(grouped)

\* C14: groupCommits drops every commit whose message begins with 'Merge ':
\* none of them is recorded in a group or among the unmatched, and the
\* result is that of the list without them.
C14_MergeCommitsDropped ==
    (pc = "returned" /\ ret # None) =>
        /\ ret[1].value = groupCommits(NonMerges(ret[1].commits), ret[1].additionalTypes)
        /\ ~ret[1].value.thrown => MergeFree(ret[1].commits, ret[1].value.value)

\* A merge commit between a grouped and an unmatched commit.
C14_Witness ==
    /\ GroupReturned
    /\ Len(ret[1].commits) = 3
    /\ IsMerge(ret[1].commits[2])
    /\ ItemHashes(ret[1].value.value) = {ShortHash(ret[1].commits[1])}
    /\ UnmatchedHashes(ret[1].value.value) = {ShortHash(ret[1].commits[3])}

\* The group name the type map gives a type: the value under the lower-cased
\* type when that key is in the map, the type as written otherwise.
NameInTypeMap(typeMap, type) ==
    IF HasOwn(typeMap, ToLowerCase(type)) THEN OwnValue(typeMap, ToLowerCase(type))
    ELSE type

\* The group of the result with this name holds an entry of this hash.
GroupedUnder(grouped, name, hash) ==
    \E g \in 1..Len(grouped.groups) :
        /\ grouped.groups[g].name = name
        /\ \E i \in 1..Len(grouped.groups[g].items) : grouped.groups[g].items[i].hash = hash

\* The commits groupCommits parses: no merge commits, of the shape.
IsParsed(commit) ==
    /\ commit.message # None
    /\ ~IsMerge(commit)
    /\ parseCommitMessage(commit.message[1]) # None

TypeOf(commit) == parseCommitMessage(commit.message[1])[1].type

GroupedByTypeMap(commits, typeMap, grouped) ==
    \A i \in 1..Len(commits) :
        IsParsed(commits[i]) =>
            GroupedUnder(grouped, NameInTypeMap(typeMap, TypeOf(commits[i])),
                         ShortHash(commits[i]))

\* C15: every parsed commit is grouped under typeMap[lower-cased type] when
\* that key is in the type map and under its type as written otherwise, so
\* known types match in any letter case and unknown types that differ in
\* letter case only make two groups.
C15_GroupNameFromTypeMap ==
    GroupReturned =>
        GroupedByTypeMap(ret[1].commits, DEFAULT_TYPES \o ret[1].additionalTypes,
                         ret[1].value.value)

\* A commit of type Constructor is returned in a group named after the
\* Object function.
C15_Witness ==
    /\ GroupReturned
    /\ Len(ret[1].commits) = 1
    /\ IsParsed(ret[1].commits[1])
    /\ TypeOf(ret[1].commits[1]) = <<"C", "o", "n", "s", "t", "r", "u", "c", "t", "o", "r">>
    /\ GroupedUnder(ret[1].value.value, InheritedText(ConstructorKey),
                    ShortHash(ret[1].commits[1]))

\* The commit is parsed and its lower-cased type is a key of the defaults
\* and of the caller's map.
Overridden(commit, additionalTypes) ==
    /\ IsParsed(commit)
    /\ HasOwn(DEFAULT_TYPES, ToLowerCase(TypeOf(commit)))
    /\ HasOwn(additionalTypes, ToLowerCase(TypeOf(commit)))

OverridesWin(commits, additionalTypes, grouped) ==
    \A i \in 1..Len(commits) :
        Overridden(commits[i], additionalTypes) =>
            GroupedUnder(grouped, OwnValue(additionalTypes, ToLowerCase(TypeOf(commits[i]))),
                         ShortHash(commits[i]))

AllOverridden(commits, additionalTypes) ==
    \A i \in 1..Len(commits) : Overridden(commits[i], additionalTypes)

\* C16: the type map is the defaults with the caller's map laid over them:
\* a commit whose lower-cased type is a key of both is placed in the group
\* the caller names, whatever that name is.
C16_CallerSuppliedNameWins ==
    /\ GroupReturned => OverridesWin(ret[1].commits, ret[1].additionalTypes, ret[1].value.value)
    /\ (pc = "returned" /\ ret # None /\ AllOverridden(ret[1].commits, ret[1].additionalTypes))
           => ~ret[1].value.thrown

\* The caller maps feature to the empty name and the commit of type Feature
\* is returned in the group Feature.
C16_Witness ==
    /\ GroupReturned
    /\ Len(ret[1].commits) = 1
    /\ Overridden(ret[1].commits[1], ret[1].additionalTypes)
    /\ OwnValue(ret[1].additionalTypes, ToLowerCase(TypeOf(ret[1].commits[1]))) = <<>>
    /\ GroupedUnder(ret[1].value.value, <<"F", "e", "a", "t", "u", "r", "e">>,
                    ShortHash(ret[1].commits[1]))

\* The position in the list of the commit an entry was made from.
PositionOf(commits, hash) == CHOOSE i \in 1..Len(commits) : ShortHash(commits[i]) = hash

\* Entries carrying hashes are in the order of their commits.
InInputOrder(commits, entries) ==
    \A i, j \in 1..Len(entries) :
        i < j => PositionOf(commits, entries[i].hash) < PositionOf(commits, entries[j].hash)

OrderKept(commits, grouped) ==
    /\ \A g \in 1..Len(grouped.groups) : InInputOrder(commits, grouped.groups[g].items)
    /\ InInputOrder(commits, grouped.unmatched)

\* Every key of groups holds an entry, and no key is there twice.
KeysOnInsertion(grouped) ==
    /\ \A g \in 1..Len(grouped.groups) : grouped.groups[g].items # <<>>
    /\ \A g, h \in 1..Len(grouped.groups) :
           grouped.groups[g].name = grouped.groups[h].name => g = h

\* C17: groupCommits keeps the order of the input within every group and
\* among the unmatched, and a group key exists only when a commit was
\* inserted into the group.
C17_OrderPreserved ==
    GroupReturned =>
        /\ OrderKept(ret[1].commits, ret[1].value.value)
        /\ KeysOnInsertion(ret[1].value.value)

\* Two commits of one group with a commit of another group between them.
C17_Witness ==
    /\ GroupReturned
    /\ Len(ret[1].commits) = 3
    /\ Len(ret[1].value.value.groups) = 2
    /\ Len(ret[1].value.value.groups[1].items) = 2
    /\ ret[1].value.value.groups[1].items[2].hash = ShortHash(ret[1].commits[3])
    /\ ret[1].value.value.groups[2].items[1].hash = ShortHash(ret[1].commits[2])

(***************************************************************************)
(* Direct calls of sortGroupNames                                           *)
(***************************************************************************)
MaxNames == 4

\* Group names: those of the priority list and others, some of which differ
\* in letter case only or begin with letters of different case.
GroupNamePool ==
    { <<"F", "e", "a", "t", "u", "r", "e", "s">>,
      <<"B", "u", "g", " ", "F", "i", "x", "e", "s">>,
      <<"D", "o", "c", "u", "m", "e", "n", "t", "a", "t", "i", "o", "n">>,
      <<"C", "h", "o", "r", "e", "s">>,
      <<"P", "e", "r", "f", "o", "r", "m", "a", "n", "c", "e">>,
      <<"p", "e", "r", "f">>,
      <<"P", "e", "r", "f">>,
      <<"Z", "e", "t", "a">>,
      <<"a", "p", "p", "l", "e">> }

\* Object.keys of the groups: names without repetition, in any order.
GroupNameLists ==
    UNION { {names \in [1..k -> GroupNamePool] :
                 \A i, j \in 1..k : names[i] = names[j] => i = j} : k \in 0..MaxNames }

InitSort ==
    /\ config \in [groupNames : GroupNameLists]
    /\ git = [tags |-> <<>>, initialCommit |-> InitialCommitHash, failing |-> {}]
    /\ file = NoFile
    /\ pc = "call"
    /\ ncalls = 0
    /\ ret = None
    /\ NoRun

CallSortGroupNames ==
    /\ pc = "call"
    /\ ret' = Some([groupNames |-> config.groupNames,
                    value |-> sortGroupNames(config.groupNames)])
    /\ pc' = "returned"
    /\ ncalls' = ncalls + 1
    /\ UNCHANGED <<config, git, file, core, github, local, fswrites, backend>>

NextSort == CallSortGroupNames

SpecSort == InitSort /\ [][NextSort]_vars

(***************************************************************************)
(* Claims about sortGroupNames (checked under SpecSort)                     *)
(***************************************************************************)
Occurrences(names, name) == Cardinality({i \in 1..Len(names) : names[i] = name})

IsPermutation(names, sorted) ==
    /\ Len(names) = Len(sorted)
    /\ \A name \in GroupNamePool : Occurrences(names, name) = Occurrences(sorted, name)

IsPriority(name) == \E k \in 1..Len(priorityOrder) : priorityOrder[k] = name

PriorityRank(name) == CHOOSE k \in 1..Len(priorityOrder) : priorityOrder[k] = name

\* Alphabetical order: letter by letter whatever the letter case.
Alphabetical(a, b) == PlainCompare(ToLowerCase(a), ToLowerCase(b)) <= 0

PriorityThenAlphabetical(sorted) ==
    \A i, j \in 1..Len(sorted) :
        i < j =>
            /\ IsPriority(sorted[j]) =>
                   IsPriority(sorted[i]) /\ PriorityRank(sorted[i]) < PriorityRank(sorted[j])
            /\ (~IsPriority(sorted[i]) /\ ~IsPriority(sorted[j])) =>
                   Alphabetical(sorted[i], sorted[j])

\* C18: sortGroupNames returns a permutation of its input: Features, Bug
\* Fixes, Documentation and Chores, as far as they are in the input, come
\* first in that order, the other names follow in alphabetical order, and
\* no name that is not in the input appears.
C18_PriorityThenAlphabetical ==
    (pc = "returned" /\ ret # None) =>
        /\ IsPermutation(ret[1].groupNames, ret[1].value)
        /\ PriorityThenAlphabetical(ret[1].value)

\* Two priority names and two others, all out of order, are sorted.
C18_Witness ==
    /\ pc = "returned"
    /\ ret # None
    /\ ret[1].groupNames =
           << <<"Z", "e", "t", "a">>, <<"C", "h", "o", "r", "e", "s">>,
              <<"a", "p", "p", "l", "e">>, <<"F", "e", "a", "t", "u", "r", "e", "s">> >>
    /\ ret[1].value =
           << <<"F", "e", "a", "t", "u", "r", "e", "s">>, <<"C", "h", "o", "r", "e", "s">>,
              <<"a", "p", "p", "l", "e">>, <<"Z", "e", "t", "a">> >>

(***************************************************************************)
(* Direct calls of generateChangelog                                        *)
(***************************************************************************)
MaxRendered == 3

\* Subjects of the commits rendered: grouped ones, one of them of the type
\* Other, and unmatched ones.
RenderSubjects ==
    { <<"[", "E", "M", "B", "R", "-", "1", "]", " ", "F", "e", "a", "t", "u", "r", "e", ":", " ", "A">>,
      <<"[", "e", "m", "b", "r", "-", "2", "]", " ", "F", "I", "X", ":", " ", "B">>,
      <<"[", "E", "M", "B", "R", "-", "3", "]", " ", "P", "e", "r", "f", ":", " ", "C">>,
      <<"[", "E", "M", "B", "R", "-", "7", "]", " ", "O", "t", "h", "e", "r", ":", " ", "Z">>,
      <<"[", "E", "M", "B", "R", "-", "8", "]", " ", "f", "e", "a", "t", ":", " ", "D">>,
      <<"U", "p", "d", "a", "t", "e", " ", "d", "e", "p", "s">>,
      <<"M", "e", "r", "g", "e", "d", " ", "x">> }

\* The grouped commits of up to MaxRendered commits.
RenderedGroupings ==
    { groupCommits(CommitsOf([i \in DOMAIN subjects |-> Some(subjects[i])]), <<>>).value :
          subjects \in UNION {[1..k -> RenderSubjects] : k \in 0..MaxRendered} }

Reverse(s) == [i \in 1..Len(s) |-> s[Len(s) + 1 - i]]

\* The names the sections are asked for: those of the groups in priority
\* order, as index.js passes them, in the order of their keys, in an order
\* of the caller's (the priority order reversed), or none.
RenderedNames(grouped) ==
    { sortGroupNames(GroupKeys(grouped.groups)), GroupKeys(grouped.groups),
      Reverse(sortGroupNames(GroupKeys(grouped.groups))), <<>> }

InitRender ==
    /\ \E grouped \in RenderedGroupings :
           config \in [version : {<<"v", "1", ".", "0", ".", "0">>,
                                  <<"v", "2", ".", "0", ".", "0", "-", "r", "c", "1">>},
                       grouped : {grouped}, names : RenderedNames(grouped),
                       includeUnmatched : BOOLEAN, now : Clocks]
    /\ git = [tags |-> <<>>, initialCommit |-> InitialCommitHash, failing |-> {}]
    /\ file = NoFile
    /\ pc = "call"
    /\ ncalls = 0
    /\ ret = None
    /\ NoRun

CallGenerateChangelog ==
    /\ pc = "call"
    /\ ret' = Some([version |-> config.version, grouped |-> config.grouped,
                    names |-> config.names, includeUnmatched |-> config.includeUnmatched,
                    now |-> config.now,
                    value |-> generateChangelog(config.version, config.grouped, config.names,
                                                config.includeUnmatched, config.now)])
    /\ pc' = "returned"
    /\ ncalls' = ncalls + 1
    /\ UNCHANGED <<config, git, file, core, github, local, fswrites, backend>>

NextRender == CallGenerateChangelog

SpecRender == InitRender /\ [][NextRender]_vars

(***************************************************************************)
(* Claims about generateChangelog (checked under SpecRender)                *)
(***************************************************************************)
RenderReturned == pc = "returned" /\ ret # None /\ ~ret[1].value.thrown

\* The lines of a text that ends with a newline: the last piece is empty.
LinesOf(text) == Split(text, {NL})

\* The lines of the header: the heading of the tag, the date between
\* asterisks and an empty line.
HeaderLines(version, now) ==
    << <<"#", "#", " ">> \o version, <<"*">> \o formatDate(now) \o <<"*">>, <<>> >>

PlaceholderLine ==
    <<"_", "N", "o", " ", "c", "h", "a", "n", "g", "e", "s", " ", "r", "e", "c", "o", "r", "d", "e", "d", ".", "_">>

\* C19: without group names and without unmatched commits generateChangelog
\* returns the header, the line '_No changes recorded._' and an empty line,
\* nothing else, whatever the include-unmatched flag.
C19_EmptyReleasePlaceholder ==
    (pc = "returned" /\ ret # None
        /\ ret[1].names = <<>> /\ ret[1].grouped.unmatched = <<>>) =>
        /\ ~ret[1].value.thrown
        /\ LinesOf(ret[1].value.value) =
               HeaderLines(ret[1].version, ret[1].now) \o <<PlaceholderLine, <<>>, <<>>>>

\* An empty release rendered with the flag set.
C19_Witness ==
    /\ RenderReturned
    /\ ret[1].names = <<>>
    /\ ret[1].grouped.unmatched = <<>>
    /\ ret[1].includeUnmatched
    /\ Includes(ret[1].value.value, PlaceholderLine)

OtherHeading == <<"#", "#", "#", " ", "O", "t", "h", "e", "r">>

UnmatchedLine(entry) ==
    <<"-", " ">> \o entry.message \o <<" ", "(", BackTick>> \o entry.hash \o <<BackTick, ")">>

\* The lines of the Other section at the end of a text.
OtherLines(unmatched) ==
    <<OtherHeading, <<>>>> \o [i \in 1..Len(unmatched) |-> UnmatchedLine(unmatched[i])]
        \o << <<>>, <<>> >>

EndsWithLines(lines, tail) ==
    /\ Len(tail) <= Len(lines)
    /\ SubSeq(lines, Len(lines) - Len(tail) + 1, Len(lines)) = tail

HeadingCount(lines, heading) == Cardinality({i \in 1..Len(lines) : lines[i] = heading})

OtherAsked(unmatched, includeUnmatched) == includeUnmatched /\ unmatched # <<>>

\* The Other section is there, once and at the end, exactly when it is asked
\* for; a group named Other has a heading of its own.
OtherIffAsked(lines, names, unmatched, includeUnmatched) ==
    /\ OtherAsked(unmatched, includeUnmatched) => EndsWithLines(lines, OtherLines(unmatched))
    /\ HeadingCount(lines, OtherHeading) =
           Occurrences(names, <<"O", "t", "h", "e", "r">>)
               + (IF OtherAsked(unmatched, includeUnmatched) THEN 1 ELSE 0)
    /\ ~OtherAsked(unmatched, includeUnmatched) =>
           \A i \in 1..Len(lines), k \in 1..Len(unmatched) :
               lines[i] # UnmatchedLine(unmatched[k])

NoMessageIn(text, unmatched) ==
    \A k \in 1..Len(unmatched) : ~Includes(text, unmatched[k].message)

\* C20: generateChangelog emits the section '### Other', one line for each
\* unmatched commit in their order, if and only if include-unmatched is true
\* and there is an unmatched commit; with the flag false no message of an
\* unmatched commit is in the output.
C20_OtherSectionIffAsked ==
    RenderReturned =>
        /\ OtherIffAsked(LinesOf(ret[1].value.value), ret[1].names,
                         ret[1].grouped.unmatched, ret[1].includeUnmatched)
        /\ ~ret[1].includeUnmatched =>
               NoMessageIn(ret[1].value.value, ret[1].grouped.unmatched)

\* Two unmatched commits after a grouped one, rendered with the flag set.
C20_Witness ==
    /\ RenderReturned
    /\ ret[1].includeUnmatched
    /\ Len(ret[1].grouped.unmatched) = 2
    /\ ret[1].grouped.unmatched[1].message # ret[1].grouped.unmatched[2].message
    /\ Len(ret[1].names) = 1
    /\ EndsWithLines(LinesOf(ret[1].value.value), OtherLines(ret[1].grouped.unmatched))

EntryLine(item) ==
    <<"-", " ", "*", "*">> \o item.ticket \o <<"*", "*", ":", " ">> \o item.description

ItemsOf(groups, name) == groups[GroupIndex(groups, name)].items

\* The lines of the section of one group: its heading, an empty line, one
\* line for each entry and an empty line.
SectionLines(groups, name) ==
    << <<"#", "#", "#", " ">> \o name, <<>> >>
        \o [i \in 1..Len(ItemsOf(groups, name)) |-> EntryLine(ItemsOf(groups, name)[i])]
        \o << <<>> >>

\* The lines of the sections of the names of a list, in the order of the list.
RECURSIVE SectionsLines(_, _)
SectionsLines(groups, names) ==
    IF names = <<>> THEN <<>>
    ELSE SectionLines(groups, Head(names)) \o SectionsLines(groups, Tail(names))

\* The lines after the group sections: the Other section where it is asked
\* for, and the empty piece after the last newline.
LinesAfterSections(unmatched, includeUnmatched) ==
    IF OtherAsked(unmatched, includeUnmatched) THEN OtherLines(unmatched) ELSE << <<>> >>

EntryMark == <<"-", " ", "*", "*">>

EntryLineCount(lines) == Cardinality({i \in 1..Len(lines) : StartsWith(lines[i], EntryMark)})

RECURSIVE EntryTotal(_)
EntryTotal(groups) ==
    IF groups = <<>> THEN 0 ELSE Len(Head(groups).items) + EntryTotal(Tail(groups))

NamesAllGroups(groups, names) ==
    /\ Len(names) = Len(groups)
    /\ \A g \in 1..Len(groups) : \E i \in 1..Len(names) : names[i] = groups[g].name

\* C21: generateChangelog emits one section '### <GroupName>' for each name
\* of the list it is given, in the order of the list, each with one line
\* '- **<ticket>**: <description>' for each entry of the group in the order
\* of the group; the entry lines are as many as the grouped entries.
C21_SectionsInGivenOrder ==
    (RenderReturned /\ ret[1].names # <<>>) =>
        /\ LinesOf(ret[1].value.value) =
               HeaderLines(ret[1].version, ret[1].now)
                   \o SectionsLines(ret[1].grouped.groups, ret[1].names)
                   \o LinesAfterSections(ret[1].grouped.unmatched, ret[1].includeUnmatched)
        /\ NamesAllGroups(ret[1].grouped.groups, ret[1].names) =>
               EntryLineCount(LinesOf(ret[1].value.value)) = EntryTotal(ret[1].grouped.groups)

\* Bug Fixes asked for before Features, and Features with two entries.
C21_Witness ==
    /\ RenderReturned
    /\ ret[1].names = << <<"B", "u", "g", " ", "F", "i", "x", "e", "s">>,
                         <<"F", "e", "a", "t", "u", "r", "e", "s">> >>
    /\ Len(ItemsOf(ret[1].grouped.groups, <<"F", "e", "a", "t", "u", "r", "e", "s">>)) = 2
    /\ ItemsOf(ret[1].grouped.groups, <<"F", "e", "a", "t", "u", "r", "e", "s">>)[1].description
           # ItemsOf(ret[1].grouped.groups, <<"F", "e", "a", "t", "u", "r", "e", "s">>)[2].description
    /\ EntryLineCount(LinesOf(ret[1].value.value)) = 3

\* No groups, some unmatched commit and the flag false.
OnlyUnmatchedUnasked ==
    /\ pc = "returned"
    /\ ret # None
    /\ ret[1].grouped.groups = <<>>
    /\ ret[1].names = <<>>
    /\ ret[1].grouped.unmatched # <<>>
    /\ ~ret[1].includeUnmatched

\* C30: without groups, with an unmatched commit and include-unmatched
\* false, generateChangelog returns the header alone: neither the
\* placeholder '_No changes recorded._' nor any '###' section is in it.
C30_HeaderOnly ==
    OnlyUnmatchedUnasked =>
        /\ ~ret[1].value.thrown
        /\ LinesOf(ret[1].value.value) = HeaderLines(ret[1].version, ret[1].now) \o << <<>> >>
        /\ ~Includes(ret[1].value.value, PlaceholderLine)
        /\ ~Includes(ret[1].value.value, <<"#", "#", "#">>)

\* Two unmatched commits and nothing else, rendered without the flag.
C30_Witness ==
    /\ OnlyUnmatchedUnasked
    /\ Len(ret[1].grouped.unmatched) = 2
    /\ ~ret[1].value.thrown
    /\ Len(LinesOf(ret[1].value.value)) = 4

(***************************************************************************)
(* The partition claim about groupCommits (checked under SpecGroup)         *)
(***************************************************************************)
AllMessagesDefined(commits) == \A i \in 1..Len(commits) : commits[i].message # None

\* How many entries of the result carry this hash.
RECURSIVE ItemsWithHash(_, _)
ItemsWithHash(groups, hash) ==
    IF groups = <<>> THEN 0
    ELSE Cardinality({i \in 1..Len(Head(groups).items) : Head(groups).items[i].hash = hash})
         + ItemsWithHash(Tail(groups), hash)

EntriesWithHash(grouped, hash) ==
    ItemsWithHash(grouped.groups, hash)
        + Cardinality({i \in 1..Len(grouped.unmatched) : grouped.unmatched[i].hash = hash})

\* Every commit that is no merge commit is recorded once under the first
\* seven characters of its hash, every merge commit not at all, and there is
\* no entry besides.
IsPartition(commits, grouped) ==
    /\ \A i \in 1..Len(commits) :
           EntriesWithHash(grouped, ShortHash(commits[i])) = (IF IsMerge(commits[i]) THEN 0 ELSE 1)
    /\ EntryTotal(grouped.groups) + Len(grouped.unmatched) = Len(NonMerges(commits))

\* C28: groupCommits partitions its input: every commit whose message does
\* not begin with 'Merge ' is in the result exactly once, as an entry of one
\* group or as an unmatched entry, under the first seven characters of its
\* hash, so the entries are as many as the commits that are no merge
\* commits.
C28_Partition ==
    (pc = "returned" /\ ret # None /\ AllMessagesDefined(ret[1].commits)) =>
        /\ ~ret[1].value.thrown
        /\ IsPartition(ret[1].commits, ret[1].value.value)

\* The call on the single commit of type toString throws.
C28_Witness ==
    /\ pc = "returned"
    /\ ret # None
    /\ Len(ret[1].commits) = 1
    /\ IsParsed(ret[1].commits[1])
    /\ TypeOf(ret[1].commits[1]) = <<"t", "o", "S", "t", "r", "i", "n", "g">>
    /\ ret[1].additionalTypes = <<>>
    /\ ret[1].value.thrown
    /\ ret[1].value.message = PushTypeError

(***************************************************************************)
(* The frame of a write of updateChangelogFile (checked under SpecChangelog) *)
(***************************************************************************)
WroteInto(call) == Written(call) /\ call.before.exists

\* new is old with the lines of an insertion put in at one place.
LinesInserted(old, new) ==
    \E k \in 0..Len(old) :
        /\ Len(new) >= Len(old)
        /\ SubSeq(new, 1, k) = SubSeq(old, 1, k)
        /\ SubSeq(new, k + 1 + Shift(old, new), Len(new)) = SubSeq(old, k + 1, Len(old))

\* The places where written is previous with a newline and the section put
\* in.
PlacesWithSeparator(previous, section, written) ==
    {k \in 0..Len(previous) :
        written = Take(previous, k) \o <<NL>> \o section \o Drop(previous, k)}

\* The places where written is previous with the section alone put in.
PlacesWithoutSeparator(previous, section, written) ==
    {k \in 0..Len(previous) : written = Take(previous, k) \o section \o Drop(previous, k)}

\* C27 as stated: a write keeps every line of the previous content in its
\* order, and the written content without the inserted section and the
\* single separator newline is the previous content.
C27_OnlyInsertion ==
    (ret # None /\ WroteInto(ret[1])) =>
        /\ LinesInserted(Split(ret[1].before.content, {NL}), Split(file.content, {NL}))
        /\ PlacesWithSeparator(ret[1].before.content, ret[1].changelogContent,
                               file.content) # {}

\* C27 (amended): a write keeps every line of the previous content in its
\* order. A section put between two lines of the file adds nothing but
\* itself: the written content without the section is the previous content.
\* A section put at the very start of the file (no title line) or at its
\* very end (nothing but blank lines below the title) comes with one
\* separator newline before it, and the written content without that
\* newline and the section is the previous content.
C27_OnlyInsertionSeparatorAtEnds ==
    (ret # None /\ WroteInto(ret[1])) =>
        /\ LinesInserted(Split(ret[1].before.content, {NL}), Split(file.content, {NL}))
        /\ \/ PlacesWithSeparator(ret[1].before.content, ret[1].changelogContent,
                                  file.content) \cap {0, Len(ret[1].before.content)} # {}
           \/ PlacesWithoutSeparator(ret[1].before.content, ret[1].changelogContent,
                                     file.content)
                  \ {0, Len(ret[1].before.content)} # {}

\* A section written between the title and the section recorded before.
C27_Witness ==
    /\ ret # None
    /\ WroteInto(ret[1])
    /\ HasSection(ret[1].before, <<"v", "1", ".", "0", ".", "0", "-", "r", "c", "1">>)
    /\ FirstTitleLine(LinesBefore(ret[1])) = 1
    /\ PlacesWithoutSeparator(ret[1].before.content, ret[1].changelogContent, file.content)
           = {Len(NewFileText)}

(***************************************************************************)
(* Runs of upload-sdk-version                                               *)
(***************************************************************************)
\* The inputs of the action; failOnConflict is None for action.yml, which
\* has no such input.
UploadInputs ==
    [platform : { <<"i", "o", "s">>,
      <<"a", "n", "d", "r", "o", "i", "d">>,
      <<"f", "l", "u", "t", "t", "e", "r">>,
      <<"r", "n">>,
      <<"u", "n", "i", "t", "y">>,
      <<"w", "e", "b">>,
      <<>>,
      <<"I", "O", "S">>,
      <<"i", "o">>,
      <<"i", "o", "s", " ", "a", "n", "d", "r", "o", "i", "d">>,
      <<"r", "n", " ", "u", "n", "i", "t", "y">> },
     version : {<<"1", ".", "2", ".", "3">>},
     dryRun : { <<"t", "r", "u", "e">>,
      <<"f", "a", "l", "s", "e">>,
      <<"T", "r", "u", "e">>,
      <<"T", "R", "U", "E">>,
      <<>>,
      <<"1">> },
     uploadUrl : {<<"h", "t", "t", "p", "s", ":", "/", "/", "d", "a", "s", "h", ".", "e", "x", "a", "m", "p", "l", "e">>},
     failOnConflict :
         {None} \cup { Some(f) : f \in
          { <<"t", "r", "u", "e">>,
            <<"f", "a", "l", "s", "e">>,
            <<"T", "r", "u", "e">>,
            <<>> } }]

InitUpload ==
    /\ config \in UploadInputs
    /\ git = [tags |-> <<>>, initialCommit |-> InitialCommitHash, failing |-> {}]
    /\ file = NoFile
    /\ pc = "platform"
    /\ ncalls = 0
    /\ ret = None
    /\ NoRun

NextUpload ==
    \/ ValidatePlatform
    \/ ValidateToken
    \/ PublishVersion

SpecUpload == InitUpload /\ [][NextUpload]_vars

(***************************************************************************)
(* Claims about upload-sdk-version (checked under SpecUpload)               *)
(***************************************************************************)
JobEnded == pc \in {"success", "failure"}

\* The job ended in its first step.
RejectedPlatform == pc = "failure" /\ backend = NoRequests

IsTokenCheck(request) ==
    /\ request.method = "GET"
    /\ request.url = config.uploadUrl \o <<"/", "c", "h", "e", "c", "k", "-", "t", "o", "k", "e", "n", "/">>

IsPublish(request) ==
    /\ request.method = "POST"
    /\ request.url = config.uploadUrl \o <<"/">> \o config.platform
                        \o <<"/", "v", "e", "r", "s", "i", "o", "n", "/">>

\* One request was made once the job ended with its platform accepted, and
\* none before.
OneRequest ==
    /\ Len(backend) <= 1
    /\ (JobEnded /\ ~RejectedPlatform) => Len(backend) = 1
    /\ pc \in {"platform", "token"} => backend = NoRequests

DryRunIsTrue == config.dryRun = <<"t", "r", "u", "e">>

\* dryRun is the word true in any letter case.
DryRunReadsTrue ==
    /\ Len(config.dryRun) = 4
    /\ config.dryRun[1] \in {"t", "T"}
    /\ config.dryRun[2] \in {"r", "R"}
    /\ config.dryRun[3] \in {"u", "U"}
    /\ config.dryRun[4] \in {"e", "E"}

\* C24 as stated: when dryRun is 'true' only the token-validation request
\* (GET <uploadUrl>/check-token/) is made and never the publish POST; for
\* any other dryRun value the publish POST is made and not the
\* token-validation request; once the platform is accepted exactly one of
\* the two steps runs.
C24_DryRunOnlyValidates ==
    /\ OneRequest
    /\ \A i \in 1..Len(backend) :
          IF DryRunIsTrue THEN IsTokenCheck(backend[i]) ELSE IsPublish(backend[i])

\* C24 (amended): when dryRun is 'true' in any letter case only the
\* token-validation request is made and never the publish POST; for any
\* other dryRun value the publish POST is made and not the token-validation
\* request; once the platform is accepted exactly one of the two steps runs.
C24_DryRunInAnyCaseOnlyValidates ==
    /\ OneRequest
    /\ \A i \in 1..Len(backend) :
          IF DryRunReadsTrue THEN IsTokenCheck(backend[i]) ELSE IsPublish(backend[i])

\* A run with dryRun 'TRUE' that ended having validated the token only.
C24_Witness ==
    /\ JobEnded
    /\ config.dryRun = <<"T", "R", "U", "E">>
    /\ Len(backend) = 1
    /\ IsTokenCheck(backend[1])

IsValidPlatform(platform) == \E i \in 1..Len(VALID_PLATFORMS) : VALID_PLATFORMS[i] = platform

\* The first step failed the job: it printed its line, and no later step
\* ran or made a request.
FailedInFirstStep ==
    /\ RejectedPlatform
    /\ Len(core.log) = 1
    /\ core.log[1].message = <<Lit("Invalid platform: "), Val(config.platform)>>

\* C25: the platform is accepted if and only if it is one of ios, android,
\* flutter, rn, unity; for any other platform the job fails in the first
\* step, before any request to the token-validation or publish endpoint.
C25_PlatformOneOfFive ==
    pc # "platform" => (IsValidPlatform(config.platform) <=> ~FailedInFirstStep)

\* A run with the platform 'ios android' passed the first step and sent the
\* publish request.
C25_Witness ==
    /\ config.platform = <<"i", "o", "s", " ", "a", "n", "d", "r", "o", "i", "d">>
    /\ pc = "success"
    /\ Len(backend) = 1
    /\ IsPublish(backend[1])

\* The publish step of the action with failOnConflict ran and curl got the
\* given status.
PublishedWith(status) ==
    /\ JobEnded
    /\ config.failOnConflict # None
    /\ Len(backend) = 1
    /\ backend[1].method = "POST"
    /\ backend[1].response = Some(status)

\* The publish step of the action with failOnConflict ran and curl got no
\* response.
PublishedWithoutResponse ==
    /\ JobEnded
    /\ config.failOnConflict # None
    /\ Len(backend) = 1
    /\ backend[1].method = "POST"
    /\ backend[1].response = None

FailsOnConflict == config.failOnConflict = Some(<<"t", "r", "u", "e">>)

LastLogged == core.log[Len(core.log)]

\* What the step does with a status.
HandledAsClaimed(status) ==
    IF status = <<"4", "0", "9">> /\ FailsOnConflict
    THEN pc = "failure"
    ELSE IF status[1] = "5"
    THEN pc = "failure"
    ELSE IF status = <<"4", "0", "9">>
    THEN /\ pc = "success"
         /\ LastLogged = Warning(<<Lit("Version "), Val(config.version),
                                   Lit(" already exists.")>>)
    ELSE /\ pc = "success"
         /\ LastLogged = Notice(<<Lit("Version "), Val(config.version),
                                  Lit("pushed. Status: "), Val(status)>>)

\* C26 as stated: the publish step fails the job exactly when the status is
\* 409 and failOnConflict is 'true', or the status starts with 5; a 409
\* with failOnConflict not 'true' only emits a warning and the job
\* succeeds; every other status is reported as pushed and the job
\* succeeds. The status of a request without a response is 000.
C26_FailsExactlyOnConflictOrServerError ==
    /\ \A status \in Statuses : PublishedWith(status) => HandledAsClaimed(status)
    /\ PublishedWithoutResponse => HandledAsClaimed(<<"0", "0", "0">>)

\* C26 (amended): when curl gets a response, the publish step fails the job
\* exactly when the status is 409 and failOnConflict is 'true', or the
\* status starts with 5; a 409 with failOnConflict not 'true' only emits a
\* warning and the job succeeds; every other status is reported as pushed
\* and the job succeeds. When curl gets no response the step fails the job.
C26_FailsOnConflictServerErrorOrNoResponse ==
    /\ \A status \in Statuses : PublishedWith(status) => HandledAsClaimed(status)
    /\ PublishedWithoutResponse => pc = "failure"

\* A 409 with failOnConflict 'True' ended in a warning and a job that
\* succeeded.
C26_Witness ==
    /\ PublishedWith(<<"4", "0", "9">>)
    /\ config.failOnConflict = Some(<<"T", "r", "u", "e">>)
    /\ pc = "success"
    /\ LastLogged.level = "warning"

====
